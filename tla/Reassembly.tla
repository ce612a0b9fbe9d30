------------------------------- MODULE Reassembly -------------------------------
(***************************************************************************)
(* The reassembly of 6LoWPAN datagrams: the fragment half of sicslowpan.c, *)
(* behind the duplicate detection of nullsec.c, with motes whose frames    *)
(* are lost, sent again and sent in between.                               *)
(*                                                                         *)
(* Lengths and offsets count fragments.  A datagram is its sender and tag, *)
(* which stand for the contents of its fragments.                          *)
(***************************************************************************)
EXTENDS MacSequence, FiniteSets

CONSTANTS
  NumTags,      \* tags count modulo this (2^16)
  Sizes,        \* of datagrams
  Unknown,      \* the tags of those whose header is not known
  BufSize,      \* sizeof(uip_buf)
  Contexts,     \* of frag_info: 0 .. SICSLOWPAN_REASS_CONTEXTS - 1
  NumBuffers,   \* SICSLOWPAN_FRAGMENT_BUFFERS
  Stale,        \* what first_frag holds from an earlier use
  NoFragment,   \* a frame that bears no fragment
  Interleaved   \* do motes send such a frame while a fragment is retransmitted?

ASSUME NumTagsAssumption == NumTags \in Nat \ {0} /\ Unknown \subseteq 0 .. NumTags - 1
ASSUME SizesAssumption == Sizes \subseteq Nat \ {0, 1} /\ BufSize \in Nat \ {0}
ASSUME PoolsAssumption ==
  Contexts \subseteq Nat /\ IsFiniteSet(Contexts) /\ NumBuffers \in Nat
ASSUME StaleAssumption == Stale \notin Motes \X (0 .. NumTags - 1)

VARIABLES
  frag_info,    \* datagram is sender and tag, timer whether it has expired;
                \* twice is history: was a fragment counted that was there already?
  frag_buf,     \* the fragments stored; it does not matter where, and copy tells
                \* apart those that are stored twice
  uip_buf,      \* the datagram that tcpip_input() has just been called with
  mote          \* environment: the datagram that each mote sends, and its fragment

reassVars == <<received_seqnos, frag_info, frag_buf, uip_buf, mote>>

Tags == 0 .. NumTags - 1
Datagrams == Motes \X Tags

Idle(tag) == [tag |-> tag, size |-> 0, offset |-> 0]
NoPacket == [size |-> 0, first |-> Stale, rest |-> {}]

ReassInit ==
  /\ received_seqnos = << >>
  /\ frag_info = [c \in Contexts |->
                    [len |-> 0, datagram |-> Stale, timer |-> FALSE,
                     reassembled_len |-> 0, first |-> Stale, twice |-> FALSE]]
  /\ frag_buf = {}
  /\ uip_buf = NoPacket
  /\ mote = [m \in Motes |-> Idle(0)]

-----------------------------------------------------------------------------
(* sicslowpan.c                                                            *)

Lowest(S) == CHOOSE x \in S : \A y \in S : x <= y
Open == {c \in Contexts : frag_info[c].len > 0}
TimedOut == {c \in Open : frag_info[c].timer}
Stored(c) == {b \in frag_buf : b.index = c}

\* clear_fragments(), of several contexts.
ClearedInfo(cs) ==
  [c \in Contexts |->
     IF c \in cs THEN [frag_info[c] EXCEPT !.len = 0, !.datagram = Stale, !.timer = FALSE,
                                           !.first = Stale, !.twice = FALSE]
                 ELSE frag_info[c]]
ClearedBufs(cs) == {b \in frag_buf : b.index \notin cs}

\* input() of a FRAG1: add_fragment() frees the contexts that have expired and takes
\* the first that is free; when the header is not known input() returns, and the
\* context keeps the length and the first fragment of its last use.
FirstFragment(d, size, known) ==
  LET info == ClearedInfo(TimedOut)
      free == {c \in Contexts : info[c].len = 0}
      found == Lowest(free)
  IN  /\ frag_info' =
           IF free = {} THEN info
           ELSE [info EXCEPT
                   ![found].len = size, ![found].datagram = d,
                   ![found].first = IF known THEN d ELSE Stale,
                   ![found].reassembled_len = IF known THEN 1 ELSE @]
      /\ frag_buf' = ClearedBufs(TimedOut)
      /\ uip_buf' = NoPacket

\* The contexts that add_fragment() finds for a FRAGN, by sender and tag.
Sessions_ByTag(d) == {c \in Open : frag_info[c].datagram[2] = d[2]}
Sessions(d) == {c \in Open : frag_info[c].datagram = d}

\* input() of a FRAGN that has none.
FragmentLost ==
  UNCHANGED frag_info /\ UNCHANGED frag_buf /\ uip_buf' = NoPacket

\* add_fragment() frees expired contexts, other than the datagram's own, only when
\* the buffers are full.
Outdated(found) ==
  IF Cardinality(frag_buf) = NumBuffers THEN TimedOut \ {found} ELSE {}

\* The packet that copy_frags2uip() makes of a context and its last fragment.
Packet(c, d, size, offset) ==
  [size |-> size, first |-> frag_info[c].first,
   rest |-> {<<b.offset, b.data>> : b \in Stored(c)} \union {<<offset, d>>}]

\* The rest of input(), for a FRAGN and the context that add_fragment() has found: it
\* is delivered with this fragment when the lengths add up, and fit into uip_buf.
Completes_Late(len, size) == len > size
Completes(len, size) == len >= size
NextFragment(d, size, offset) ==
  LET found == Lowest(Sessions(d))
      info == ClearedInfo(Outdated(found))
      bufs == ClearedBufs(Outdated(found))
      len == frag_info[found].reassembled_len + 1
      copies == {b \in Stored(found) : b.offset = offset}
  IN  IF Cardinality(bufs) = NumBuffers
      THEN frag_info' = info /\ frag_buf' = bufs /\ uip_buf' = NoPacket
      ELSE IF Completes(len, size) /\ offset < BufSize
      THEN /\ frag_info' = [ClearedInfo(Outdated(found) \union {found})
                              EXCEPT ![found].reassembled_len = size]
           /\ frag_buf' = ClearedBufs(Outdated(found) \union {found})
           /\ uip_buf' = Packet(found, d, size, offset)
      ELSE /\ frag_info' = [info EXCEPT ![found].reassembled_len = len,
                                        ![found].twice = @ \/ copies # {}]
           /\ frag_buf' = bufs \union {[index |-> found, offset |-> offset, data |-> d,
                                        copy |-> Cardinality(copies)]}
           /\ uip_buf' = NoPacket

\* input()
Input(d, size, known, offset) ==
  \/ offset = 0 /\ FirstFragment(d, size, known)
  \/ offset > 0 /\ Sessions(d) = {} /\ FragmentLost
  \/ offset > 0 /\ Sessions(d) # {} /\ NextFragment(d, size, offset)

-----------------------------------------------------------------------------
(* The motes, and nullsec.c's input().                                     *)

Sending(m) == mote[m].size > 0
Seqno(m) == <<mote[m].tag, mote[m].offset>>

\* A mote has another datagram to send.  It does not come round to a tag that the
\* border router has a context for.
NewDatagram(m, size) ==
  LET tag == (mote[m].tag + 1) % NumTags
  IN  /\ ~Sending(m)
      /\ \A c \in Open : frag_info[c].datagram # <<m, tag>>
      /\ mote' = [mote EXCEPT ![m] =
                    [tag |-> tag, size |-> size, offset |-> 0]]
      /\ uip_buf' = NoPacket
      /\ UNCHANGED <<received_seqnos, frag_info, frag_buf>>

\* nullsec.c's input() of the fragment, again and again as long as the mote receives no
\* acknowledgement; a duplicate is dropped and changes nothing.
FragmentReceived(m) ==
  LET f == mote[m]
  IN  /\ Sending(m)
      /\ ~IsDuplicate(m, Seqno(m))
      /\ RegisterSeqno(m, Seqno(m))
      /\ Input(<<m, f.tag>>, f.size, f.tag \notin Unknown, f.offset)
      /\ UNCHANGED mote

\* The mote goes on to the next fragment, whether this one has been received or not.
NextToSend(m) ==
  /\ Sending(m)
  /\ LET f == mote[m]
     IN  mote' = [mote EXCEPT ![m] =
                    IF f.offset + 1 < f.size THEN [f EXCEPT !.offset = f.offset + 1]
                                             ELSE Idle(f.tag)]
  /\ uip_buf' = NoPacket
  /\ UNCHANGED <<received_seqnos, frag_info, frag_buf>>

\* The mote sends from another queue, a broadcast for example.
OtherFrame(m) ==
  /\ Interleaved \/ ~Sending(m) \/ ~IsDuplicate(m, Seqno(m))
  /\ RegisterSeqno(m, NoFragment)
  /\ uip_buf' = NoPacket
  /\ UNCHANGED <<frag_info, frag_buf, mote>>

\* Retransmissions of a frame take less than SEQNO_MAX_AGE.
TimePasses ==
  /\ \/ /\ \E c \in Open \ TimedOut : frag_info' = [frag_info EXCEPT ![c].timer = TRUE]
        /\ UNCHANGED received_seqnos
     \/ /\ \E k \in 1 .. Len(received_seqnos) :
             LET m == received_seqnos[k].sender
             IN  ~(Sending(m) /\ IsDuplicate(m, Seqno(m))) /\ SeqnoAges(k)
        /\ UNCHANGED frag_info
  /\ uip_buf' = NoPacket
  /\ UNCHANGED <<frag_buf, mote>>

ReassNext ==
  \/ \E m \in Motes : \/ \E size \in Sizes : NewDatagram(m, size)
                      \/ FragmentReceived(m) \/ NextToSend(m) \/ OtherFrame(m)
  \/ TimePasses

ReassSpec == ReassInit /\ [][ReassNext]_reassVars

-----------------------------------------------------------------------------

ReassTypeOK ==
  /\ MacSequenceTypeOK(Tags \X Nat \union {NoFragment})
  /\ frag_info \in [Contexts -> [len : Sizes \union {0}, datagram : Datagrams \union {Stale},
                                timer : BOOLEAN, reassembled_len : Nat,
                                first : Datagrams \union {Stale}, twice : BOOLEAN]]
  /\ frag_buf \subseteq [index : Contexts, offset : Nat, data : Datagrams, copy : Nat]
  /\ IsFiniteSet(frag_buf) /\ Cardinality(frag_buf) <= NumBuffers
  /\ uip_buf \in [size : Nat, first : Datagrams \union {Stale}, rest : SUBSET (Nat \X Datagrams)]
  /\ mote \in [Motes -> [tag : Tags, size : Sizes \union {0}, offset : Nat]]
  /\ \A m \in Motes : mote[m].offset <= mote[m].size

\* The fragments that wait are those of contexts in use and add up to what the context
\* has counted, and a datagram does not wait when all of it has come: no buffer is lost,
\* and nothing is held back.  (After a header that was not known the count is that of
\* the context's last use.)
FragmentsAccounted ==
  /\ ReassTypeOK
  /\ \A b \in frag_buf : b.index \in Open
  /\ \A c \in Open : frag_info[c].first # Stale =>
       /\ frag_info[c].reassembled_len = 1 + Cardinality(Stored(c))
       /\ frag_info[c].reassembled_len < frag_info[c].len \/ frag_info[c].len > BufSize

\* A datagram is delivered whole or not at all: all fragments of one datagram of one
\* mote, and no other's, however the datagrams interleave, time out and run out of
\* buffers; but for one whose first header was not known.
DeliveredWhole ==
  uip_buf.size > 0 /\ uip_buf.first # Stale
    => uip_buf.rest = {<<k, uip_buf.first>> : k \in 1 .. uip_buf.size - 1}

\* A fragment that is sent again because its acknowledgement was lost is neither counted
\* again nor the start of a second reassembly.
CountedOnce ==
  /\ \A c \in Contexts : ~frag_info[c].twice
  /\ \A c, d \in Open : frag_info[c].datagram = frag_info[d].datagram => c = d
=============================================================================
