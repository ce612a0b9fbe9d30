------------------------------ MODULE MacSequence ------------------------------
(***************************************************************************)
(* Duplicate detection, core/net/mac/mac-sequence.c, as nullsec.c uses it: *)
(* the last sequence number of each sender, the most recent sender first.  *)
(* Sequence numbers are told apart by the frames that bear them.           *)
(***************************************************************************)
EXTENDS Lists

CONSTANTS
  Motes,        \* link-layer addresses of senders
  MaxSeqnos,    \* MAX_SEQNOS
  Aged          \* the sequence number of an entry that is SEQNO_MAX_AGE old

ASSUME MaxSeqnosAssumption == MaxSeqnos \in Nat \ {0}

VARIABLE received_seqnos

MacSequenceTypeOK(Seqnos) ==
  /\ received_seqnos \in Seq([sender : Motes, seqno : Seqnos \union {Aged}])
  /\ Len(received_seqnos) <= MaxSeqnos

\* mac_sequence_is_duplicate()
IsDuplicate_LastSender(m, s) ==
  received_seqnos # << >> /\ Head(received_seqnos) = [sender |-> m, seqno |-> s]
IsDuplicate(m, s) == \E k \in 1 .. Len(received_seqnos) :
                       received_seqnos[k] = [sender |-> m, seqno |-> s]

\* mac_sequence_register_seqno()
RegisterSeqno(m, s) ==
  LET others == Kept(received_seqnos, {e \in Members(received_seqnos) : e.sender # m})
      kept == IF Len(others) < MaxSeqnos THEN others ELSE SubSeq(others, 1, MaxSeqnos - 1)
  IN  received_seqnos' = <<[sender |-> m, seqno |-> s]>> \o kept

\* Time passes.
SeqnoAges(k) == received_seqnos' = [received_seqnos EXCEPT ![k].seqno = Aged]
=============================================================================
