---------------------------- MODULE Process_proofs ----------------------------
(***************************************************************************)
(* Theorems about Process: the list of processes, the stack and the walks  *)
(* agree, whatever protothreads call while they are called.                *)
(***************************************************************************)
EXTENDS Process, SequenceTheorems, TLAPS

Refs == Procs \union {Null}
Nexts == [Procs -> Refs]

-----------------------------------------------------------------------------
(* What a walk reaches, for pointers nx.                                   *)

From(nx, p) ==
  {r \in Procs :
     \A S \in SUBSET Procs :
       p \in S \union {Null} /\ (\A q \in S : nx[q] \in S \union {Null}) => r \in S}

\* ReachedFrom is From, for the pointers of the state.
LEMMA ReachedIs ==
  ASSUME NEW p
  PROVE  ReachedFrom(p) = From(next, p)
BY DEF ReachedFrom, From

\* A walk stays in a set that no pointer leads out of.
LEMMA FromLeast ==
  ASSUME NEW nx, NEW p, NEW S \in SUBSET Procs, p \in S \union {Null},
         \A q \in S : nx[q] \in S \union {Null}
  PROVE  From(nx, p) \subseteq S
BY DEF From

\* A walk reaches processes.
LEMMA FromProcs ==
  ASSUME NEW nx, NEW p
  PROVE  From(nx, p) \subseteq Procs
BY DEF From

\* A walk reaches where it begins.
LEMMA FromHas ==
  ASSUME NEW nx, NEW p \in Procs
  PROVE  p \in From(nx, p)
BY NullAssumption DEF From

\* No pointer leads out of what a walk reaches.
LEMMA FromClosed ==
  ASSUME NEW nx \in Nexts, NEW p, NEW q \in From(nx, p)
  PROVE  nx[q] \in From(nx, p) \union {Null}
BY DEF From, Nexts, Refs

\* A walk that is at its end reaches nothing.
LEMMA FromNull ==
  ASSUME NEW nx
  PROVE  From(nx, Null) = {}
<1>1. /\ \A q \in {} : nx[q] \in {} \union {Null}
      /\ {} \in SUBSET Procs /\ Null \in {} \union {Null}
  OBVIOUS
<1>2. \A r \in From(nx, Null) : r \in {}
  BY <1>1 DEF From
<1> QED
  BY <1>2

\* What a walk reaches, another reaches that comes there.
LEMMA FromWithin ==
  ASSUME NEW nx \in Nexts, NEW p, NEW q \in From(nx, p) \union {Null}
  PROVE  From(nx, q) \subseteq From(nx, p)
BY FromClosed, FromLeast, FromProcs

\* A walk reaches where it is and what it reaches from the next process.
LEMMA FromStep ==
  ASSUME NEW nx \in Nexts, NEW p \in Procs
  PROVE  /\ nx[p] \in Refs
         /\ From(nx, p) = {p} \union From(nx, nx[p])
<1> DEFINE S == {p} \union From(nx, nx[p])
<1>0. nx[p] \in Refs
  BY DEF Nexts, Refs
<1>1. S \in SUBSET Procs /\ p \in S
  BY FromProcs
<1>2. nx[p] \in S \union {Null}
  BY <1>0, FromHas DEF Refs
<1>3. \A q \in S : nx[q] \in S \union {Null}
  <2>1. \A q \in From(nx, nx[p]) : nx[q] \in From(nx, nx[p]) \union {Null}
    BY FromClosed
  <2> QED
    BY <1>2, <2>1
<1>4. From(nx, p) \subseteq S
  <2> HIDE DEF S
  <2> QED
  BY <1>1, <1>3, FromLeast
<1>5. nx[p] \in From(nx, p) \union {Null} /\ p \in From(nx, p)
  BY FromHas, FromClosed
<1> QED
  BY <1>0, <1>4, <1>5, FromWithin

-----------------------------------------------------------------------------
(* The list changes.                                                       *)

\* No walk is endless.
Ends(pl, nx) == \A q \in From(nx, pl) : q \notin From(nx, nx[q])

\* What process_start() does to the list.
Linked(pl, nx, p, ny) == ny = [nx EXCEPT ![p] = pl]

\* A process that is not on the list is put in front of it: the list has it and ends,
\* and a walk that has come anywhere, be it to a process that has left the list, still
\* reaches whatever of the list it reached before.
LEMMA LinkKeeps ==
  ASSUME NEW pl \in Refs, NEW nx \in Nexts, NEW p \in Procs, p \notin From(nx, pl),
         NEW ny, Linked(pl, nx, p, ny), Ends(pl, nx)
  PROVE  /\ ny \in Nexts
         /\ From(ny, p) = From(nx, pl) \union {p}
         /\ \A s \in Refs : From(nx, s) \cap From(nx, pl) \subseteq From(ny, s)
         /\ \A q \in Procs : From(nx, nx[q]) \cap From(nx, pl) \subseteq From(ny, ny[q])
         /\ Ends(p, ny)
<1> DEFINE L == From(nx, pl)
<1>0. L \subseteq Procs /\ pl \in L \union {Null} /\ \A q \in L : nx[q] \in L \union {Null}
  BY FromProcs, FromHas, FromClosed DEF Refs
<1>1. /\ ny \in Nexts /\ ny[p] = pl
      /\ \A q \in Procs : q # p => ny[q] = nx[q]
  BY DEF Linked, Nexts, Refs
<1>2. ASSUME NEW S \in SUBSET Procs, pl \in S \union {Null},
             \A q \in S : ny[q] \in S \union {Null}
      PROVE  L \subseteq S
  <2>1. \A q \in S \cap L : nx[q] \in (S \cap L) \union {Null}
    BY <1>0, <1>1, <1>2
  <2>2. L \subseteq S \cap L
    BY <1>0, <1>2, <2>1, FromLeast
  <2> QED
    BY <2>2
<1>3. \A q \in L : From(ny, nx[q]) \subseteq From(nx, nx[q])
  <2> SUFFICES ASSUME NEW q \in L
               PROVE  From(ny, nx[q]) \subseteq From(nx, nx[q])
    OBVIOUS
  <2>1. From(nx, nx[q]) \subseteq L
    BY <1>0, FromWithin
  <2>2. \A r \in From(nx, nx[q]) : ny[r] \in From(nx, nx[q]) \union {Null}
    BY <1>0, <1>1, <2>1, FromClosed
  <2>3. nx[q] \in From(nx, nx[q]) \union {Null}
    BY <1>0, FromHas
  <2> QED
    BY <2>1, <2>2, <2>3, <1>0, FromLeast
<1>4. From(ny, pl) \subseteq L
  <2>1. \A q \in L : ny[q] \in L \union {Null}
    BY <1>0, <1>1
  <2> QED
    BY <1>0, <2>1, FromLeast
<1>5. L \subseteq From(ny, pl)
  <2>1. \A q \in From(ny, pl) : ny[q] \in From(ny, pl) \union {Null}
    BY <1>1, FromClosed
  <2>2. pl \in From(ny, pl) \union {Null} /\ From(ny, pl) \in SUBSET Procs
    BY FromHas, FromProcs DEF Refs
  <2> QED
    BY <1>2, <2>1, <2>2
<1>6. From(ny, p) = L \union {p}
  <2>1. From(ny, p) = {p} \union From(ny, ny[p])
    BY <1>1, FromStep
  <2> QED
    BY <1>1, <1>4, <1>5, <2>1
<1>7. ASSUME NEW s \in Refs, NEW r \in From(nx, s), r \in L
      PROVE  r \in From(ny, s)
  <2>1. SUFFICES ASSUME NEW S \in SUBSET Procs, s \in S \union {Null},
                        \A q \in S : ny[q] \in S \union {Null}
                 PROVE  r \in S
    BY <1>7, <1>0 DEF From
  <2>2. CASE p \in S
    BY <1>1, <1>2, <1>7, <2>1, <2>2
  <2>3. CASE p \notin S
    <3>1. \A q \in S : nx[q] \in S \union {Null}
      BY <1>1, <2>1, <2>3
    <3> QED
      BY <1>7, <2>1, <3>1, FromLeast
  <2> QED
    BY <2>2, <2>3
<1>8. Ends(p, ny)
  <2> SUFFICES ASSUME NEW q \in L \union {p}
               PROVE  q \notin From(ny, ny[q])
    BY <1>6 DEF Ends
  <2>1. CASE q = p
    BY <1>1, <1>4, <2>1
  <2>2. CASE q \in L
    <3>1. ny[q] = nx[q] /\ q \notin From(nx, nx[q])
      BY <1>0, <1>1, <2>2 DEF Ends
    <3> QED
      BY <1>3, <2>2, <3>1
  <2> QED
    BY <2>1, <2>2
<1>9. \A q \in Procs : nx[q] \in Refs
  BY DEF Nexts
<1>10. \A q \in Procs : From(nx, nx[q]) \cap L \subseteq From(ny, ny[q])
  <2> SUFFICES ASSUME NEW q \in Procs
               PROVE  From(nx, nx[q]) \cap L \subseteq From(ny, ny[q])
    OBVIOUS
  <2>1. CASE q = p
    BY <1>1, <1>5, <2>1
  <2>2. CASE q # p
    BY <1>1, <1>7, <1>9, <2>2
  <2> QED
    BY <2>1, <2>2
<1> QED
  BY <1>1, <1>6, <1>7, <1>8, <1>10

\* What exit_process() does to the list.
Unlinked(pl, nx, p, pm, ny) ==
  IF p = pl
  THEN pm = nx[p] /\ ny = nx
  ELSE /\ pm = pl
       /\ ny = [q \in Procs |-> IF q \in From(nx, pl) /\ nx[q] = p THEN nx[p] ELSE nx[q]]

\* A process of the list leaves it: the list has all others and ends, and a walk that
\* has come anywhere misses nobody but this process.
LEMMA UnlinkKeeps ==
  ASSUME NEW pl \in Refs, NEW nx \in Nexts, NEW p \in From(nx, pl), Ends(pl, nx),
         NEW pm, NEW ny, Unlinked(pl, nx, p, pm, ny)
  PROVE  /\ pm \in Refs /\ ny \in Nexts
         /\ From(ny, pm) = From(nx, pl) \ {p}
         /\ \A s \in Refs : From(nx, s) \ {p} \subseteq From(ny, s)
         /\ From(nx, pl) \ {p} \subseteq From(ny, pm)
         /\ \A q \in Procs : From(nx, nx[q]) \ {p} \subseteq From(ny, ny[q])
         /\ nx[p] # p /\ ny[p] = nx[p]
         /\ Ends(pm, ny)
<1> DEFINE L == From(nx, pl)
<1>0. /\ L \subseteq Procs /\ pl \in L \union {Null} /\ p \in Procs /\ p # Null
      /\ \A q \in L : nx[q] \in L \union {Null}
      /\ \A q \in Procs : nx[q] \in Refs
  BY FromProcs, FromHas, FromClosed, NullAssumption DEF Refs, Nexts
<1>1. nx[p] # p
  BY <1>0, FromHas DEF Ends
<1>2. ASSUME p = pl
      PROVE  \A q \in L : nx[q] # p
  <2> SUFFICES ASSUME NEW q \in L, nx[q] = p
               PROVE  FALSE
    OBVIOUS
  <2>1. q # p
    BY <1>1
  <2>2. L = {p} \union From(nx, nx[p])
    BY <1>0, <1>2, FromStep
  <2>3. nx[q] \in From(nx, nx[p]) \union {Null}
    BY <2>1, <2>2, FromClosed
  <2> QED
    BY <1>0, <2>3 DEF Ends
<1>3. /\ pm \in Refs /\ ny \in Nexts
      /\ \A q \in Procs : ny[q] = nx[q] \/ (nx[q] = p /\ ny[q] = nx[p])
      /\ \A q \in L : IF nx[q] = p THEN ny[q] = nx[p] ELSE ny[q] = nx[q]
      /\ pm = IF p = pl THEN nx[p] ELSE pl
  <2>1. CASE p = pl
    BY <1>0, <1>2, <2>1 DEF Unlinked, Nexts
  <2>2. CASE p # pl
    BY <1>0, <2>2 DEF Unlinked, Nexts
  <2> QED
    BY <2>1, <2>2
<1>4. ASSUME NEW s \in Refs, NEW t \in Refs, t = s \/ (s = p /\ t = nx[p])
      PROVE  From(nx, s) \ {p} \subseteq From(ny, t)
  <2>1. SUFFICES ASSUME NEW r \in From(nx, s), r # p,
                        NEW S \in SUBSET Procs, t \in S \union {Null},
                        \A q \in S : ny[q] \in S \union {Null}
                 PROVE  r \in S
    BY FromProcs DEF From
  <2>2. CASE p \in S
    <3>1. nx[p] \in S \union {Null}
      BY <1>0, <1>1, <1>3, <2>1, <2>2
    <3>2. \A q \in S : nx[q] \in S \union {Null}
      BY <1>3, <2>1, <2>2
    <3>3. s \in S \union {Null}
      BY <1>4, <2>1, <2>2
    <3> QED
      BY <2>1, <3>2, <3>3, FromLeast
  <2>3. CASE p \notin S /\ nx[p] \in S \union {Null}
    <3>1. \A q \in S \union {p} : nx[q] \in (S \union {p}) \union {Null}
      BY <1>3, <2>1, <2>3
    <3>2. s \in (S \union {p}) \union {Null}
      BY <1>4, <2>1, <2>3
    <3>3. S \union {p} \in SUBSET Procs
      BY <1>0
    <3>4. From(nx, s) \subseteq S \union {p}
      BY <3>1, <3>2, <3>3, FromLeast
    <3> QED
      BY <2>1, <3>4
  <2>4. CASE p \notin S /\ nx[p] \notin S \union {Null}
    <3>1. \A q \in S : nx[q] \in S \union {Null}
      BY <1>0, <1>3, <2>1, <2>4
    <3>2. s \in S \union {Null}
      BY <1>4, <2>1, <2>4
    <3> QED
      BY <2>1, <3>1, <3>2, FromLeast
  <2> QED
    BY <2>2, <2>3, <2>4
<1>5. \A x \in Refs : From(ny, x) \subseteq From(nx, x)
  <2> SUFFICES ASSUME NEW x \in Refs
               PROVE  From(ny, x) \subseteq From(nx, x)
    OBVIOUS
  <2>1. \A q \in From(nx, x) : nx[q] \in From(nx, x) \union {Null}
    BY FromClosed
  <2>2. \A q \in From(nx, x) : ny[q] \in From(nx, x) \union {Null}
    BY <1>0, <1>3, <2>1, FromProcs
  <2> QED
    BY <2>2, FromLeast, FromHas, FromProcs DEF Refs
<1>6. From(ny, pm) \subseteq L \ {p}
  <2>1. \A q \in L \ {p} : ny[q] \in (L \ {p}) \union {Null}
    BY <1>0, <1>1, <1>3
  <2>2. pm \in (L \ {p}) \union {Null}
    BY <1>0, <1>1, <1>3
  <2>3. L \ {p} \in SUBSET Procs
    BY <1>0
  <2> HIDE DEF L
  <2> QED
    BY <2>1, <2>2, <2>3, FromLeast
<1>7. L \ {p} \subseteq From(ny, pm)
  BY <1>3, <1>4
<1>8. \A q \in Procs : From(nx, nx[q]) \ {p} \subseteq From(ny, ny[q])
  BY <1>0, <1>3, <1>4
<1>9. Ends(pm, ny)
  <2> SUFFICES ASSUME NEW q \in L, q # p
               PROVE  q \notin From(ny, ny[q])
    BY <1>6 DEF Ends
  <2>1. CASE nx[q] = p
    <3>1. ny[q] = nx[p] /\ nx[p] \in Refs
      BY <1>0, <1>3, <2>1
    <3>2. From(ny, ny[q]) \subseteq From(nx, nx[p])
      BY <1>5, <3>1
    <3>3. From(nx, nx[p]) \subseteq From(nx, nx[q])
      BY <1>0, <2>1, FromStep
    <3> QED
      BY <3>2, <3>3 DEF Ends
  <2>2. CASE nx[q] # p
    BY <1>0, <1>3, <1>5, <2>2 DEF Ends
  <2> QED
    BY <2>1, <2>2
<1>10. ny[p] = nx[p]
  BY <1>0, <1>1, <1>3
<1>11. \A s \in Refs : From(nx, s) \ {p} \subseteq From(ny, s)
  BY <1>4
<1> QED
  BY <1>1, <1>3, <1>6, <1>7, <1>8, <1>9, <1>10, <1>11

-----------------------------------------------------------------------------
(* The stack.                                                              *)

Leaving(f) == f.fn \in {"exit", "unlink"}
Thread(f) == f.fn = "thread"
Poll(f) == f.fn = "poll"
Loop(f) == f.fn \in {"exit", "event"}

\* What g can be that is called from f: a protothread finds itself in old when what it
\* has called returns, a poll has called the process that it has come to.
OnTop(f, g) ==
  /\ Thread(f) => g.fn \in {"synch", "exit", "unlink"} /\ g.old = f.p
  /\ Poll(f) => g.fn \in {"thread", "exit", "unlink"} /\ g.p = f.q
  /\ Thread(g) /\ g.how = "exit" => f.fn = "unlink" /\ f.p = g.p
  /\ Poll(g) => f.fn = "event"
  /\ g.fn # "event"

Bottom(g) == ~(Thread(g) /\ g.how = "exit")

\* Nobody is entered twice, and nobody exits twice.
Alike(f, g) ==
  /\ \/ Thread(f) /\ Thread(g)
     \/ Leaving(f) /\ Leaving(g)
  /\ f.p = g.p

Once(stk) == \A j, k \in 1 .. Len(stk) : Alike(stk[j], stk[k]) => j = k

StackOK(stk) ==
  /\ stk \in Seq(AnyFrame)
  /\ stk # << >> => Bottom(stk[1])
  /\ \A k \in 2 .. Len(stk) : OnTop(stk[k - 1], stk[k])
  /\ Once(stk)

\* What the state of a process says about its frames.
FrameState(st, f) ==
  /\ Thread(f) /\ f.how = "call" => st[f.p] = "called"
  /\ Leaving(f) => st[f.p] = "none"
  /\ Loop(f) => \A q \in f.owed : st[q] # "none"

StepOf(pl, nx, f) == IF f.q = Null THEN pl ELSE nx[f.q]
CursorOf(pl, nx, f) == IF f.fn = "event" /\ f.polled THEN f.q ELSE StepOf(pl, nx, f)

FrameWalk(pl, nx, f) == Loop(f) => f.owed \subseteq From(nx, CursorOf(pl, nx, f))

Leaves(stk, p) == \E k \in 1 .. Len(stk) : Leaving(stk[k]) /\ stk[k].p = p

ListOK(pl, nx, st, stk) ==
  /\ pl \in Refs /\ nx \in Nexts /\ Ends(pl, nx)
  /\ st \in [Procs -> {"none", "running", "called"}]
  /\ \A p \in Procs : p \in From(nx, pl) <=> st[p] # "none" \/ Leaves(stk, p)

\* PROCESS_CURRENT() is the protothread on top; a poll on top goes on on the list,
\* wherever it is.
TopOK(pl, nx, cur, stk) ==
  stk # << >> =>
    LET f == stk[Len(stk)]
    IN  /\ Thread(f) => cur = f.p
        /\ Poll(f) => StepOf(pl, nx, f) \in From(nx, pl) \union {Null}

Kernel(pl, nx, st, cur, stk) ==
  /\ StackOK(stk)
  /\ ListOK(pl, nx, st, stk)
  /\ \A k \in 1 .. Len(stk) : FrameState(st, stk[k]) /\ FrameWalk(pl, nx, stk[k])
  /\ TopOK(pl, nx, cur, stk)
  /\ cur \in Refs

\* A poll of p has been requested or is under way.
Polled(pl, nx, pr, stk, p) ==
  pr \/ \E k \in 1 .. Len(stk) : Poll(stk[k]) /\ p \in From(nx, StepOf(pl, nx, stk[k]))

Polls(pl, nx, st, np, pr, stk, ask) ==
  /\ np \in [Procs -> BOOLEAN] /\ ask \subseteq Procs
  /\ \A p \in ask : st[p] # "none" /\ np[p] /\ Polled(pl, nx, pr, stk, p)

Queue == /\ events \in Seq(Refs) /\ Len(events) <= NumEvents
         /\ poll_requested \in BOOLEAN /\ pc \in {"poll", "event", "select"}

Inv ==
  /\ Kernel(process_list, next, state, process_current, stack)
  /\ Polls(process_list, next, state, needspoll, poll_requested, stack, asked)
  /\ Queue

-----------------------------------------------------------------------------
(* The stack grows, shrinks and goes on.                                   *)

\* t is s with the frame g on top.
IsPush(s, g, t) ==
  /\ s \in Seq(AnyFrame) /\ t \in Seq(AnyFrame)
  /\ Len(t) = Len(s) + 1
  /\ t[Len(t)] = g
  /\ \A k \in 1 .. Len(s) : t[k] = s[k]

\* t is s, where the function on top has come to g.
IsGoing(s, g, t) ==
  /\ s \in Seq(AnyFrame) /\ t \in Seq(AnyFrame)
  /\ s # << >> /\ Len(t) = Len(s)
  /\ t[Len(t)] = g
  /\ \A k \in 1 .. Len(s) - 1 : t[k] = s[k]

\* Append() pushes.
LEMMA PushIs ==
  ASSUME NEW s \in Seq(AnyFrame), NEW g \in AnyFrame
  PROVE  IsPush(s, g, Append(s, g))
<1> DEFINE T == AnyFrame
<1> HIDE DEF T
<1>1. s \in Seq(T) /\ g \in T
  BY DEF T
<1>2. /\ Append(s, g) \in Seq(T) /\ Len(Append(s, g)) = Len(s) + 1
      /\ Append(s, g)[Len(s) + 1] = g
      /\ \A k \in 1 .. Len(s) : Append(s, g)[k] = s[k]
  BY <1>1
<1> QED
  BY <1>1, <1>2 DEF IsPush, T

\* What is under the frame on top.
LEMMA PopIs ==
  ASSUME NEW s \in Seq(AnyFrame), s # << >>
  PROVE  /\ IsPush(SubSeq(s, 1, Len(s) - 1), s[Len(s)], s)
         /\ s[Len(s)] \in AnyFrame
<1> DEFINE T == AnyFrame
<1> HIDE DEF T
<1>1. s \in Seq(T)
  BY DEF T
<1>2. Len(s) \in Nat /\ Len(s) > 0 /\ \A k \in 1 .. Len(s) : s[k] \in T
  BY <1>1
<1>3. /\ SubSeq(s, 1, Len(s) - 1) \in Seq(T)
      /\ Len(SubSeq(s, 1, Len(s) - 1)) = Len(s) - 1
      /\ \A k \in 1 .. Len(s) - 1 : SubSeq(s, 1, Len(s) - 1)[k] = s[k]
  BY <1>1, <1>2
<1> QED
  BY <1>1, <1>2, <1>3 DEF IsPush, T

\* The function on top goes on.
LEMMA GoingIs ==
  ASSUME NEW s \in Seq(AnyFrame), s # << >>, NEW g \in AnyFrame
  PROVE  IsGoing(s, g, [s EXCEPT ![Len(s)] = g])
<1> DEFINE T == AnyFrame
<1> HIDE DEF T
<1>1. s \in Seq(T) /\ g \in T /\ s \in [1 .. Len(s) -> T] /\ Len(s) \in Nat /\ Len(s) > 0
  BY DEF T
<1>2. [s EXCEPT ![Len(s)] = g] \in [1 .. Len(s) -> T]
  BY <1>1
<1>3. [s EXCEPT ![Len(s)] = g] \in Seq(T) /\ Len([s EXCEPT ![Len(s)] = g]) = Len(s)
  BY <1>1, <1>2
<1>4. /\ [s EXCEPT ![Len(s)] = g][Len(s)] = g
      /\ \A k \in 1 .. Len(s) - 1 : [s EXCEPT ![Len(s)] = g][k] = s[k]
  <2>1. PICK n : n = Len(s)
    OBVIOUS
  <2>2. s \in [1 .. n -> T] /\ n \in 1 .. n /\ n \in Nat
    BY <1>1, <2>1
  <2>3. [s EXCEPT ![n] = g][n] = g /\ \A k \in 1 .. n - 1 : [s EXCEPT ![n] = g][k] = s[k]
    BY <2>2
  <2> QED
    BY <2>1, <2>3
<1>5. PICK t : t = [s EXCEPT ![Len(s)] = g]
  OBVIOUS
<1>6. t \in Seq(T) /\ Len(t) = Len(s) /\ t[Len(t)] = g /\ \A k \in 1 .. Len(s) - 1 : t[k] = s[k]
  BY <1>3, <1>4, <1>5
<1>7. IsGoing(s, g, t)
  BY <1>1, <1>6 DEF IsGoing, T
<1> QED
  BY <1>5, <1>7

\* Frames are what their kind says.
LEMMA FrameKinds ==
  ASSUME NEW f \in AnyFrame
  PROVE  /\ f.fn = "thread" => f \in ThreadFrames
         /\ f.fn = "synch" => f \in SynchFrames
         /\ f.fn = "exit" => f \in ExitFrames
         /\ f.fn = "unlink" => f \in UnlinkFrames
         /\ f.fn = "event" => f \in EventFrames
         /\ f.fn = "poll" => f \in PollFrames
         /\ f.fn \in {"thread", "synch", "exit", "unlink", "event", "poll"}
BY DEF AnyFrame, ThreadFrames, SynchFrames, ExitFrames, UnlinkFrames, EventFrames,
       PollFrames

\* A frame may be called from the one on top.
LEMMA PushStack ==
  ASSUME NEW s, NEW g, NEW t, StackOK(s), IsPush(s, g, t),
         s = << >> => Bottom(g), s # << >> => OnTop(s[Len(s)], g),
         \A k \in 1 .. Len(s) : ~Alike(s[k], g)
  PROVE  StackOK(t)
<1>1. /\ Len(s) \in Nat /\ Len(t) = Len(s) + 1 /\ t[Len(t)] = g
      /\ t \in Seq(AnyFrame) /\ \A k \in 1 .. Len(s) : t[k] = s[k]
      /\ s = << >> <=> Len(s) = 0
  BY DEF IsPush
<1>2. \A k \in 2 .. Len(t) : OnTop(t[k - 1], t[k])
  <2> SUFFICES ASSUME NEW k \in 2 .. Len(t)
               PROVE  OnTop(t[k - 1], t[k])
    OBVIOUS
  <2>1. CASE k = Len(t)
    <3>1. k - 1 = Len(s) /\ s # << >> /\ t[k - 1] = s[Len(s)] /\ t[k] = g
      BY <1>1, <2>1
    <3> QED
      BY <3>1
  <2>2. CASE k # Len(t)
    <3>1. k \in 2 .. Len(s) /\ t[k] = s[k] /\ t[k - 1] = s[k - 1]
      BY <1>1, <2>2
    <3> QED
      BY <3>1 DEF StackOK
  <2> QED
    BY <2>1, <2>2
<1>3. Once(t)
  <2> SUFFICES ASSUME NEW j \in 1 .. Len(t), NEW k \in 1 .. Len(t), Alike(t[j], t[k])
               PROVE  j = k
    BY DEF Once
  <2>1. Alike(t[k], t[j])
    BY DEF Alike
  <2>2. CASE j \in 1 .. Len(s) /\ k \in 1 .. Len(s)
    BY <1>1, <2>2 DEF StackOK, Once
  <2>3. CASE j = Len(t) /\ k \in 1 .. Len(s)
    BY <1>1, <2>1, <2>3
  <2>4. CASE k = Len(t) /\ j \in 1 .. Len(s)
    BY <1>1, <2>4
  <2> QED
    BY <1>1, <2>2, <2>3, <2>4
<1>4. Bottom(t[1])
  <2>1. CASE s = << >>
    BY <1>1, <2>1
  <2>2. CASE s # << >>
    BY <1>1, <2>2 DEF StackOK
  <2> QED
    BY <2>1, <2>2
<1> QED
  BY <1>1, <1>2, <1>3, <1>4 DEF StackOK

\* What is under the frame on top is a stack.
LEMMA PopStack ==
  ASSUME NEW s, NEW f, NEW t, StackOK(t), IsPush(s, f, t)
  PROVE  /\ StackOK(s)
         /\ s = << >> => Bottom(f)
         /\ s # << >> => OnTop(s[Len(s)], f)
         /\ \A k \in 1 .. Len(s) : ~Alike(s[k], f)
<1>1. /\ Len(s) \in Nat /\ Len(t) = Len(s) + 1 /\ t[Len(t)] = f
      /\ s \in Seq(AnyFrame) /\ \A k \in 1 .. Len(s) : t[k] = s[k]
      /\ (s = << >> <=> Len(s) = 0) /\ t # << >>
  BY DEF IsPush
<1>2. \A k \in 2 .. Len(s) : OnTop(s[k - 1], s[k])
  BY <1>1 DEF StackOK
<1>3. Once(s)
  BY <1>1 DEF StackOK, Once
<1>4. s # << >> => Bottom(s[1]) /\ OnTop(s[Len(s)], f)
  <2> SUFFICES ASSUME s # << >>
               PROVE  Bottom(s[1]) /\ OnTop(s[Len(s)], f)
    OBVIOUS
  <2>1. t[1] = s[1] /\ Len(t) \in 2 .. Len(t) /\ t[Len(t) - 1] = s[Len(s)] /\ t # << >>
    BY <1>1
  <2> QED
    BY <1>1, <2>1 DEF StackOK
<1>5. s = << >> => Bottom(f)
  BY <1>1 DEF StackOK
<1>6. \A k \in 1 .. Len(s) : ~Alike(s[k], f)
  <2> SUFFICES ASSUME NEW k \in 1 .. Len(s), Alike(s[k], f)
               PROVE  FALSE
    OBVIOUS
  <2>1. k \in 1 .. Len(t) /\ Len(t) \in 1 .. Len(t) /\ t[k] = s[k] /\ k # Len(t)
    BY <1>1
  <2> QED
    BY <1>1, <2>1 DEF StackOK, Once
<1> QED
  BY <1>1, <1>2, <1>3, <1>4, <1>5, <1>6 DEF StackOK

\* A function goes on in the role that it has.
SameRole(f, g) ==
  /\ Bottom(f) => Bottom(g)
  /\ \A x \in AnyFrame : OnTop(x, f) => OnTop(x, g)
  /\ \A x \in AnyFrame : Alike(x, g) => Alike(x, f)
  /\ Leaving(f) <=> Leaving(g)
  /\ Leaving(f) => f.p = g.p

LEMMA GoingStack ==
  ASSUME NEW s, NEW g, NEW t, StackOK(s), IsGoing(s, g, t), SameRole(s[Len(s)], g)
  PROVE  StackOK(t)
<1>1. /\ Len(s) \in Nat /\ Len(t) = Len(s) /\ t[Len(t)] = g /\ Len(s) > 0
      /\ t \in Seq(AnyFrame) /\ \A k \in 1 .. Len(s) - 1 : t[k] = s[k]
      /\ \A k \in 1 .. Len(s) : s[k] \in AnyFrame
  BY DEF IsGoing
<1>2. \A k \in 2 .. Len(t) : OnTop(t[k - 1], t[k])
  <2> SUFFICES ASSUME NEW k \in 2 .. Len(t)
               PROVE  OnTop(t[k - 1], t[k])
    OBVIOUS
  <2>1. OnTop(s[k - 1], s[k]) /\ t[k - 1] = s[k - 1] /\ s[k - 1] \in AnyFrame
    BY <1>1 DEF StackOK
  <2>2. CASE k = Len(t)
    BY <1>1, <2>1, <2>2 DEF SameRole
  <2>3. CASE k # Len(t)
    <3>1. t[k] = s[k]
      BY <1>1, <2>3
    <3> QED
      BY <2>1, <3>1
  <2> QED
    BY <2>2, <2>3
<1>3. Once(t)
  <2> SUFFICES ASSUME NEW j \in 1 .. Len(t), NEW k \in 1 .. Len(t), Alike(t[j], t[k])
               PROVE  j = k
    BY DEF Once
  <2>1. \A x, y \in AnyFrame : Alike(x, y) => Alike(y, x)
    BY DEF Alike
  <2>2. j \in 1 .. Len(s) /\ k \in 1 .. Len(s) /\ s[j] \in AnyFrame /\ s[k] \in AnyFrame
        /\ t[j] \in AnyFrame /\ t[k] \in AnyFrame
    BY <1>1
  <2>3. CASE j = Len(t) /\ k = Len(t)
    BY <2>3
  <2>4. CASE j # Len(t) /\ k # Len(t)
    <3>1. t[j] = s[j] /\ t[k] = s[k]
      BY <1>1, <2>4
    <3> QED
      BY <2>2, <3>1 DEF StackOK, Once
  <2>5. CASE j # Len(t) /\ k = Len(t)
    <3>1. t[j] = s[j] /\ t[k] = g /\ s[k] = s[Len(s)]
      BY <1>1, <2>5
    <3>2. Alike(s[j], s[k])
      BY <2>2, <3>1 DEF SameRole
    <3> QED
      BY <2>2, <3>2 DEF StackOK, Once
  <2>6. CASE j = Len(t) /\ k # Len(t)
    <3>1. t[k] = s[k] /\ t[j] = g /\ s[j] = s[Len(s)]
      BY <1>1, <2>6
    <3>2. Alike(s[k], s[j])
      BY <2>1, <2>2, <3>1 DEF SameRole
    <3> QED
      BY <2>2, <3>2 DEF StackOK, Once
  <2> QED
    BY <2>3, <2>4, <2>5, <2>6
<1>4. Bottom(t[1])
  <2>1. CASE Len(s) = 1
    BY <1>1, <2>1 DEF StackOK, SameRole
  <2>2. CASE Len(s) # 1
    BY <1>1, <2>2 DEF StackOK
  <2> QED
    BY <2>1, <2>2
<1> QED
  BY <1>1, <1>2, <1>3, <1>4 DEF StackOK

-----------------------------------------------------------------------------
(* Steps of the kernel on which its actions are built.                     *)

\* g is f, but for what the invariant does not look at and what it is no longer to call.
Same(f, g) ==
  /\ g.fn = f.fn
  /\ f.fn \in {"thread", "exit", "unlink"} => g.p = f.p
  /\ Thread(f) => g.how = f.how
  /\ f.fn \in {"synch", "exit", "unlink"} => g.old = f.old
  /\ f.fn \in {"poll", "exit", "event"} => g.q = f.q
  /\ f.fn = "event" => g.polled = f.polled
  /\ Loop(f) => g.owed \subseteq f.owed

LEMMA KernelSame ==
  ASSUME NEW pl, NEW nx, NEW st, NEW cur, NEW s, NEW t, Kernel(pl, nx, st, cur, s),
         t \in Seq(AnyFrame), Len(t) = Len(s), \A k \in 1 .. Len(s) : Same(s[k], t[k])
  PROVE  Kernel(pl, nx, st, cur, t)
<1>1. /\ Len(s) \in Nat /\ (s = << >> <=> Len(s) = 0) /\ (t = << >> <=> Len(t) = 0)
      /\ \A k \in 1 .. Len(s) : s[k] \in AnyFrame /\ t[k] \in AnyFrame
  BY DEF Kernel, StackOK
<1>2. \A k \in 2 .. Len(t) : OnTop(t[k - 1], t[k])
  <2> SUFFICES ASSUME NEW k \in 2 .. Len(t)
               PROVE  OnTop(t[k - 1], t[k])
    OBVIOUS
  <2>1. OnTop(s[k - 1], s[k]) /\ Same(s[k - 1], t[k - 1]) /\ Same(s[k], t[k])
    BY <1>1 DEF Kernel, StackOK
  <2>2. PICK f, g, f2, g2 : f = s[k - 1] /\ g = s[k] /\ f2 = t[k - 1] /\ g2 = t[k]
    OBVIOUS
  <2>3. OnTop(f, g) /\ Same(f, f2) /\ Same(g, g2)
    BY <2>1, <2>2
  <2>4. OnTop(f2, g2)
    BY <2>3 DEF OnTop, Same, Thread, Poll
  <2> QED
    BY <2>2, <2>4
<1>3. Once(t)
  <2> SUFFICES ASSUME NEW j \in 1 .. Len(t), NEW k \in 1 .. Len(t), Alike(t[j], t[k])
               PROVE  j = k
    BY DEF Once
  <2>1. Same(s[j], t[j]) /\ Same(s[k], t[k])
    OBVIOUS
  <2>2. Alike(s[j], s[k])
    BY <2>1 DEF Alike, Same, Thread, Leaving
  <2> QED
    BY <2>2 DEF Kernel, StackOK, Once
<1>4. t # << >> => Bottom(t[1])
  <2> SUFFICES ASSUME t # << >>
               PROVE  Bottom(t[1])
    OBVIOUS
  <2>1. Bottom(s[1]) /\ Same(s[1], t[1])
    BY <1>1 DEF Kernel, StackOK
  <2> QED
    BY <2>1 DEF Bottom, Same, Thread
<1>5. \A k \in 1 .. Len(t) : FrameState(st, t[k]) /\ FrameWalk(pl, nx, t[k])
  <2> SUFFICES ASSUME NEW k \in 1 .. Len(t)
               PROVE  FrameState(st, t[k]) /\ FrameWalk(pl, nx, t[k])
    OBVIOUS
  <2>1. FrameState(st, s[k]) /\ FrameWalk(pl, nx, s[k]) /\ Same(s[k], t[k])
    BY DEF Kernel
  <2>2. FrameState(st, t[k])
    BY <2>1 DEF FrameState, Same, Thread, Leaving, Loop
  <2>3. FrameWalk(pl, nx, t[k])
    BY <2>1 DEF FrameWalk, CursorOf, StepOf, Same, Loop
  <2> QED
    BY <2>2, <2>3
<1>6. \A p : Leaves(t, p) <=> Leaves(s, p)
  BY DEF Leaves, Same, Leaving
<1>7. TopOK(pl, nx, cur, t)
  <2> SUFFICES ASSUME t # << >>
               PROVE  TopOK(pl, nx, cur, t)
    BY DEF TopOK
  <2>1. Same(s[Len(s)], t[Len(t)]) /\ s # << >>
    BY <1>1
  <2> QED
    BY <2>1 DEF Kernel, TopOK, StepOf, Same, Thread, Poll
<1> QED
  BY <1>2, <1>3, <1>4, <1>5, <1>6, <1>7 DEF Kernel, StackOK, ListOK

\* A process that runs is called or has returned.
LEMMA KernelState ==
  ASSUME NEW pl, NEW nx, NEW st, NEW cur, NEW s, Kernel(pl, nx, st, cur, s),
         NEW p \in Procs, NEW x \in {"running", "called"}, st[p] # "none",
         \/ x = "called"
         \/ \A k \in 1 .. Len(s) : ~(Thread(s[k]) /\ s[k].how = "call" /\ s[k].p = p)
  PROVE  Kernel(pl, nx, [st EXCEPT ![p] = x], cur, s)
<1>0. PICK su : su = [st EXCEPT ![p] = x]
  OBVIOUS
<1>1. /\ su \in [Procs -> {"none", "running", "called"}]
      /\ su[p] = x /\ \A q \in Procs : q # p => su[q] = st[q]
  BY <1>0 DEF Kernel, ListOK
<1>2. \A q \in Procs : su[q] # "none" <=> st[q] # "none"
  BY <1>1
<1>3. ListOK(pl, nx, su, s)
  BY <1>1, <1>2 DEF Kernel, ListOK
<1>4. \A k \in 1 .. Len(s) : FrameState(su, s[k])
  <2> SUFFICES ASSUME NEW k \in 1 .. Len(s)
               PROVE  FrameState(su, s[k])
    OBVIOUS
  <2>1. s[k] \in AnyFrame /\ FrameState(st, s[k])
    BY DEF Kernel, StackOK
  <2>2. PICK f : f = s[k]
    OBVIOUS
  <2>3. /\ f.fn \in {"thread", "exit", "unlink"} => f.p \in Procs
        /\ Loop(f) => f.owed \subseteq Procs
    BY <2>1, <2>2, FrameKinds DEF ThreadFrames, ExitFrames, UnlinkFrames, EventFrames, Loop
  <2>4. FrameState(st, f) /\ (x = "called" \/ ~(Thread(f) /\ f.how = "call" /\ f.p = p))
    BY <2>1, <2>2
  <2>5. Thread(f) /\ f.how = "call" => su[f.p] = "called"
    BY <1>1, <2>3, <2>4 DEF FrameState, Thread
  <2>6. Leaving(f) => su[f.p] = "none"
    BY <1>2, <2>3, <2>4, <1>1 DEF FrameState, Leaving
  <2>7. Loop(f) => \A q \in f.owed : su[q] # "none"
    BY <1>2, <2>3, <2>4 DEF FrameState
  <2> QED
    BY <2>2, <2>5, <2>6, <2>7 DEF FrameState
<1>5. Kernel(pl, nx, su, cur, s)
  BY <1>3, <1>4 DEF Kernel
<1> QED
  BY <1>0, <1>5

\* A function is called, other than exit_process().
LEMMA KernelPush ==
  ASSUME NEW pl, NEW nx, NEW st, NEW cur, NEW s, NEW g, NEW t, NEW now \in Refs,
         Kernel(pl, nx, st, cur, s), IsPush(s, g, t), ~Leaving(g),
         s = << >> => Bottom(g), s # << >> => OnTop(s[Len(s)], g),
         \A k \in 1 .. Len(s) : ~Alike(s[k], g),
         FrameState(st, g), FrameWalk(pl, nx, g),
         Thread(g) => now = g.p,
         Poll(g) => StepOf(pl, nx, g) \in From(nx, pl) \union {Null}
  PROVE  Kernel(pl, nx, st, now, t)
<1>1. StackOK(t)
  BY PushStack DEF Kernel
<1>2. /\ Len(s) \in Nat /\ Len(t) = Len(s) + 1 /\ t[Len(t)] = g
      /\ \A k \in 1 .. Len(s) : t[k] = s[k]
  BY DEF IsPush
<1>3. \A k \in 1 .. Len(t) : (k \in 1 .. Len(s) /\ t[k] = s[k]) \/ t[k] = g
  BY <1>2
<1>4. \A k \in 1 .. Len(t) : FrameState(st, t[k]) /\ FrameWalk(pl, nx, t[k])
  BY <1>3 DEF Kernel
<1>5. \A p : Leaves(t, p) <=> Leaves(s, p)
  BY <1>2, <1>3 DEF Leaves
<1>6. ListOK(pl, nx, st, t)
  BY <1>5 DEF Kernel, ListOK
<1>7. TopOK(pl, nx, now, t)
  BY <1>2 DEF TopOK
<1> QED
  BY <1>1, <1>4, <1>6, <1>7 DEF Kernel

\* A function returns, other than exit_process().
LEMMA KernelPop ==
  ASSUME NEW pl, NEW nx, NEW st, NEW cur, NEW s, NEW f, NEW t, NEW now \in Refs,
         Kernel(pl, nx, st, cur, t), IsPush(s, f, t), ~Leaving(f), TopOK(pl, nx, now, s)
  PROVE  Kernel(pl, nx, st, now, s)
<1>1. StackOK(s)
  BY PopStack DEF Kernel
<1>2. /\ Len(s) \in Nat /\ Len(t) = Len(s) + 1 /\ t[Len(t)] = f
      /\ \A k \in 1 .. Len(s) : t[k] = s[k]
  BY DEF IsPush
<1>3. \A k \in 1 .. Len(t) : (k \in 1 .. Len(s) /\ t[k] = s[k]) \/ t[k] = f
  BY <1>2
<1>4. \A k \in 1 .. Len(s) : k \in 1 .. Len(t)
  BY <1>2
<1>5. \A k \in 1 .. Len(s) : FrameState(st, s[k]) /\ FrameWalk(pl, nx, s[k])
  BY <1>2, <1>4 DEF Kernel
<1>6. \A p : Leaves(t, p) <=> Leaves(s, p)
  BY <1>2, <1>3, <1>4 DEF Leaves
<1>7. ListOK(pl, nx, st, s)
  BY <1>6 DEF Kernel, ListOK
<1> QED
  BY <1>1, <1>5, <1>7 DEF Kernel

\* The function on top goes on.
LEMMA KernelGoing ==
  ASSUME NEW pl, NEW nx, NEW st, NEW cur, NEW s, NEW g, NEW t,
         Kernel(pl, nx, st, cur, s), IsGoing(s, g, t), SameRole(s[Len(s)], g),
         FrameState(st, g), FrameWalk(pl, nx, g),
         Thread(g) => cur = g.p,
         Poll(g) => StepOf(pl, nx, g) \in From(nx, pl) \union {Null}
  PROVE  Kernel(pl, nx, st, cur, t)
<1>1. StackOK(t)
  BY GoingStack DEF Kernel
<1>2. /\ Len(s) \in Nat /\ Len(t) = Len(s) /\ t[Len(t)] = g /\ Len(s) > 0
      /\ \A k \in 1 .. Len(s) - 1 : t[k] = s[k]
  BY DEF IsGoing
<1>3. \A k \in 1 .. Len(t) : k \in 1 .. Len(s) /\ (t[k] = s[k] \/ (k = Len(s) /\ t[k] = g))
  BY <1>2
<1>4. \A k \in 1 .. Len(t) : FrameState(st, t[k]) /\ FrameWalk(pl, nx, t[k])
  BY <1>3 DEF Kernel
<1>5. \A p : Leaves(t, p) <=> Leaves(s, p)
  <2> SUFFICES ASSUME NEW p
               PROVE  Leaves(t, p) <=> Leaves(s, p)
    OBVIOUS
  <2>1. \A k \in 1 .. Len(s) : (Leaving(t[k]) <=> Leaving(s[k])) /\ (Leaving(s[k]) => t[k].p = s[k].p)
    BY <1>2, <1>3 DEF SameRole
  <2> QED
    BY <1>2, <2>1 DEF Leaves
<1>6. ListOK(pl, nx, st, t)
  BY <1>5 DEF Kernel, ListOK
<1>7. TopOK(pl, nx, cur, t)
  BY <1>2 DEF TopOK
<1> QED
  BY <1>1, <1>4, <1>6, <1>7 DEF Kernel

\* process_start() links a process, which is called next.
LEMMA KernelLink ==
  ASSUME NEW pl, NEW nx, NEW st, NEW cur, NEW s, Kernel(pl, nx, st, cur, s),
         s # << >> => Thread(s[Len(s)]),
         NEW p \in Procs, p \notin From(nx, pl), NEW ny, Linked(pl, nx, p, ny)
  PROVE  Kernel(p, ny, [st EXCEPT ![p] = "running"], cur, s)
<1>0. PICK su : su = [st EXCEPT ![p] = "running"]
  OBVIOUS
<1>1. /\ su \in [Procs -> {"none", "running", "called"}]
      /\ su[p] = "running" /\ \A q \in Procs : q # p => su[q] = st[q]
  BY <1>0 DEF Kernel, ListOK
<1>2. pl \in Refs /\ nx \in Nexts /\ Ends(pl, nx) /\ p \in Refs
  BY DEF Kernel, ListOK, Refs
<1>3. /\ ny \in Nexts
      /\ From(ny, p) = From(nx, pl) \union {p}
      /\ \A x \in Refs : From(nx, x) \cap From(nx, pl) \subseteq From(ny, x)
      /\ \A q \in Procs : From(nx, nx[q]) \cap From(nx, pl) \subseteq From(ny, ny[q])
      /\ Ends(p, ny)
  BY <1>2, LinkKeeps
<1>4. st[p] = "none" /\ ~Leaves(s, p)
  BY DEF Kernel, ListOK
<1>5. \A q \in Procs : st[q] # "none" => su[q] # "none" /\ q \in From(nx, pl)
  BY <1>1 DEF Kernel, ListOK
<1>6. ListOK(p, ny, su, s)
  BY <1>1, <1>2, <1>3, <1>4 DEF Kernel, ListOK
<1>7. ASSUME NEW k \in 1 .. Len(s)
      PROVE  FrameState(su, s[k]) /\ FrameWalk(p, ny, s[k])
  <2>1. s[k] \in AnyFrame /\ FrameState(st, s[k]) /\ FrameWalk(pl, nx, s[k])
    BY DEF Kernel, StackOK
  <2>2. PICK f : f = s[k]
    OBVIOUS
  <2>3. /\ f.fn \in {"thread", "exit", "unlink"} => f.p \in Procs
        /\ Loop(f) => f.owed \subseteq Procs /\ f.q \in Refs
    BY <2>1, <2>2, FrameKinds
       DEF ThreadFrames, ExitFrames, UnlinkFrames, EventFrames, Loop, Refs
  <2>4. FrameState(st, f) /\ FrameWalk(pl, nx, f) /\ (Leaving(f) => f.p # p)
    BY <1>4, <2>1, <2>2 DEF Leaves
  <2>5. Thread(f) /\ f.how = "call" => su[f.p] = "called"
    BY <1>1, <1>4, <2>3, <2>4 DEF FrameState, Thread
  <2>6. Leaving(f) => su[f.p] = "none"
    BY <1>1, <2>3, <2>4 DEF FrameState, Leaving
  <2>7. Loop(f) => \A q \in f.owed : su[q] # "none" /\ q \in From(nx, pl)
    BY <1>5, <2>3, <2>4 DEF FrameState
  <2>8. FrameWalk(p, ny, f)
    <3> SUFFICES ASSUME Loop(f)
                 PROVE  f.owed \subseteq From(ny, CursorOf(p, ny, f))
      BY DEF FrameWalk
    <3>1. f.owed \subseteq From(nx, CursorOf(pl, nx, f)) \cap From(nx, pl)
      BY <2>4, <2>7 DEF FrameWalk
    <3>2. CASE f.fn = "event" /\ f.polled
      BY <1>3, <2>3, <3>1, <3>2 DEF CursorOf
    <3>3. CASE ~(f.fn = "event" /\ f.polled) /\ f.q = Null
      <4>1. CursorOf(p, ny, f) = p
        BY <3>3 DEF CursorOf, StepOf
      <4> QED
        BY <1>3, <3>1, <4>1
    <3>4. CASE ~(f.fn = "event" /\ f.polled) /\ f.q # Null
      <4>1. f.q \in Procs /\ CursorOf(p, ny, f) = ny[f.q] /\ CursorOf(pl, nx, f) = nx[f.q]
        BY <2>3, <3>4 DEF CursorOf, StepOf, Refs
      <4> QED
        BY <1>3, <3>1, <4>1
    <3> QED
      BY <3>2, <3>3, <3>4
  <2> QED
    BY <2>2, <2>5, <2>6, <2>7, <2>8 DEF FrameState
<1>8. TopOK(p, ny, cur, s)
  BY DEF Kernel, TopOK, Thread, Poll
<1>9. Kernel(p, ny, su, cur, s)
  BY <1>6, <1>7, <1>8 DEF Kernel
<1> QED
  BY <1>0, <1>9

\* The end of exit_process(): a process leaves the list.
LEMMA KernelUnlink ==
  ASSUME NEW pl, NEW nx, NEW st, NEW cur, NEW s, NEW f, NEW t, Kernel(pl, nx, st, cur, t),
         IsPush(s, f, t), f.fn = "unlink", NEW pm, NEW ny, Unlinked(pl, nx, f.p, pm, ny)
  PROVE  /\ f.p \in From(nx, pl)
         /\ Kernel(pm, ny, st, f.old, s)
<1>1. /\ Len(s) \in Nat /\ Len(t) = Len(s) + 1 /\ t[Len(t)] = f
      /\ Len(t) \in 1 .. Len(t) /\ f \in AnyFrame
      /\ \A k \in 1 .. Len(s) : t[k] = s[k] /\ k \in 1 .. Len(t)
      /\ \A k \in 1 .. Len(t) : k \in 1 .. Len(s) \/ k = Len(t)
  BY DEF IsPush
<1>2. StackOK(s) /\ (s # << >> => OnTop(s[Len(s)], f)) /\ \A k \in 1 .. Len(s) : ~Alike(s[k], f)
  BY PopStack DEF Kernel
<1>3. f \in UnlinkFrames /\ f.p \in Procs /\ f.old \in Refs /\ Leaving(f)
  BY <1>1, FrameKinds DEF UnlinkFrames, Refs, Leaving
<1>4. st[f.p] = "none" /\ Leaves(t, f.p)
  <2>1. FrameState(st, t[Len(t)])
    BY <1>1 DEF Kernel
  <2> QED
    BY <1>1, <1>3, <2>1 DEF FrameState, Leaves
<1>5. f.p \in From(nx, pl)
  BY <1>3, <1>4 DEF Kernel, ListOK
<1>6. pl \in Refs /\ nx \in Nexts /\ Ends(pl, nx)
  BY DEF Kernel, ListOK
<1>7. PICK p \in Procs : p = f.p
  BY <1>3
<1>8. /\ pm \in Refs /\ ny \in Nexts
      /\ From(ny, pm) = From(nx, pl) \ {p}
      /\ \A x \in Refs : From(nx, x) \ {p} \subseteq From(ny, x)
      /\ From(nx, pl) \ {p} \subseteq From(ny, pm)
      /\ \A q \in Procs : From(nx, nx[q]) \ {p} \subseteq From(ny, ny[q])
      /\ nx[p] # p /\ ny[p] = nx[p]
      /\ Ends(pm, ny)
  <2>1. p \in From(nx, pl) /\ Unlinked(pl, nx, p, pm, ny)
    BY <1>5, <1>7
  <2> QED
    BY <1>6, <2>1, UnlinkKeeps
<1>9. \A q \in Procs : q # p => (Leaves(t, q) <=> Leaves(s, q))
  BY <1>1, <1>7 DEF Leaves
<1>10. ~Leaves(s, p)
  BY <1>2, <1>3, <1>7 DEF Leaves, Alike
<1>11. ListOK(pm, ny, st, s)
  <2>1. \A q \in Procs : q \in From(ny, pm) <=> st[q] # "none" \/ Leaves(s, q)
    BY <1>4, <1>7, <1>8, <1>9, <1>10 DEF Kernel, ListOK
  <2> QED
    BY <1>8, <2>1 DEF Kernel, ListOK
<1>12. ASSUME NEW k \in 1 .. Len(s)
       PROVE  FrameState(st, s[k]) /\ FrameWalk(pm, ny, s[k])
  <2>1. s[k] \in AnyFrame /\ FrameState(st, s[k]) /\ FrameWalk(pl, nx, s[k])
    BY <1>1, <1>2 DEF Kernel, StackOK
  <2>2. PICK g : g = s[k]
    OBVIOUS
  <2>3. Loop(g) => g.q \in Refs
    BY <2>1, <2>2, FrameKinds DEF ExitFrames, EventFrames, Loop, Refs
  <2>4. FrameState(st, g) /\ FrameWalk(pl, nx, g)
    BY <2>1, <2>2
  <2>5. Loop(g) => p \notin g.owed
    BY <1>4, <1>7, <2>4 DEF FrameState
  <2>6. FrameWalk(pm, ny, g)
    <3> SUFFICES ASSUME Loop(g)
                 PROVE  g.owed \subseteq From(ny, CursorOf(pm, ny, g))
      BY DEF FrameWalk
    <3>1. g.owed \subseteq From(nx, CursorOf(pl, nx, g)) \ {p}
      BY <2>4, <2>5 DEF FrameWalk
    <3>2. CASE g.fn = "event" /\ g.polled
      BY <1>8, <2>3, <3>1, <3>2 DEF CursorOf
    <3>3. CASE ~(g.fn = "event" /\ g.polled) /\ g.q = Null
      <4>1. CursorOf(pm, ny, g) = pm /\ CursorOf(pl, nx, g) = pl
        BY <3>3 DEF CursorOf, StepOf
      <4> QED
        BY <1>8, <3>1, <4>1
    <3>4. CASE ~(g.fn = "event" /\ g.polled) /\ g.q # Null
      <4>1. g.q \in Procs /\ CursorOf(pm, ny, g) = ny[g.q] /\ CursorOf(pl, nx, g) = nx[g.q]
        BY <2>3, <3>4 DEF CursorOf, StepOf, Refs
      <4> QED
        BY <1>8, <3>1, <4>1
    <3> QED
      BY <3>2, <3>3, <3>4
  <2> QED
    BY <2>1, <2>2, <2>6
<1>13. TopOK(pm, ny, f.old, s)
  <2> SUFFICES ASSUME s # << >>, NEW g, g = s[Len(s)]
               PROVE  /\ Thread(g) => f.old = g.p
                      /\ Poll(g) => StepOf(pm, ny, g) \in From(ny, pm) \union {Null}
    BY DEF TopOK
  <2>1. OnTop(g, f)
    BY <1>2
  <2>2. ASSUME Poll(g)
        PROVE  StepOf(pm, ny, g) \in From(ny, pm) \union {Null}
    <3>1. g.q = p /\ p # Null
      BY <1>7, <2>1, <2>2, NullAssumption DEF OnTop
    <3>2. StepOf(pm, ny, g) = nx[p]
      BY <1>8, <3>1 DEF StepOf
    <3>3. nx[p] \in From(nx, pl) \union {Null}
      BY <1>5, <1>6, <1>7, FromClosed
    <3> QED
      BY <1>8, <3>2, <3>3
  <2> QED
    BY <2>1, <2>2 DEF OnTop
<1> QED
  BY <1>2, <1>3, <1>5, <1>11, <1>12, <1>13 DEF Kernel

\* exit_process() begins: the process has no state from here on, and no loop has to
\* call it any more.
LEMMA KernelExit ==
  ASSUME NEW pl, NEW nx, NEW st, NEW cur, NEW s, NEW g \in ExitFrames, NEW t,
         Kernel(pl, nx, st, cur, s), IsPush(s, g, t),
         g.p \in From(nx, pl), st[g.p] # "none", g.old = cur, g.q = Null,
         g.owed \subseteq {q \in From(nx, pl) \ {g.p} : st[q] # "none"},
         s # << >> => (Poll(s[Len(s)]) => g.p = s[Len(s)].q),
         \A k \in 1 .. Len(s) : ~(Thread(s[k]) /\ s[k].p = g.p),
         \A k \in 1 .. Len(s) : Loop(s[k]) => g.p \notin s[k].owed
  PROVE  Kernel(pl, nx, [st EXCEPT ![g.p] = "none"], cur, t)
<1>1. /\ Len(s) \in Nat /\ Len(t) = Len(s) + 1 /\ t[Len(t)] = g
      /\ Len(t) \in 1 .. Len(t)
      /\ \A k \in 1 .. Len(s) : t[k] = s[k] /\ k \in 1 .. Len(t)
      /\ \A k \in 1 .. Len(t) : k \in 1 .. Len(s) \/ k = Len(t)
  BY DEF IsPush
<1>2. PICK p : p = g.p
  OBVIOUS
<1>3. p \in Procs /\ Leaving(g) /\ Loop(g) /\ ~Thread(g) /\ ~Poll(g) /\ g.fn = "exit" /\ cur \in Refs
  BY <1>2 DEF ExitFrames, Leaving, Loop, Thread, Poll, Kernel
<1>4. PICK su : su = [st EXCEPT ![p] = "none"]
  OBVIOUS
<1>5. /\ su \in [Procs -> {"none", "running", "called"}]
      /\ su[p] = "none" /\ \A q \in Procs : q # p => su[q] = st[q]
  BY <1>3, <1>4 DEF Kernel, ListOK
<1>6. \A k \in 1 .. Len(s) : /\ s[k] \in AnyFrame
                            /\ FrameState(st, s[k]) /\ FrameWalk(pl, nx, s[k])
  BY DEF Kernel, StackOK
<1>7. \A k \in 1 .. Len(s) : ~Alike(s[k], g)
  BY <1>2, <1>3, <1>6 DEF Alike, FrameState
<1>8. s # << >> => OnTop(s[Len(s)], g)
  BY <1>3 DEF Kernel, TopOK, OnTop
<1>9. StackOK(t)
  BY <1>3, <1>7, <1>8, PushStack DEF Kernel, Bottom
<1>10. ListOK(pl, nx, su, t)
  <2>1. \A q \in Procs : q # p => (Leaves(t, q) <=> Leaves(s, q))
    BY <1>1, <1>2 DEF Leaves
  <2>2. Leaves(t, p)
    BY <1>1, <1>2, <1>3 DEF Leaves
  <2> QED
    BY <1>2, <1>5, <2>1, <2>2 DEF Kernel, ListOK
<1>11. ASSUME NEW k \in 1 .. Len(s)
       PROVE  FrameState(su, s[k])
  <2>1. PICK f : f = s[k]
    OBVIOUS
  <2>2. f \in AnyFrame /\ FrameState(st, f) /\ ~(Thread(f) /\ f.p = p) /\ (Loop(f) => p \notin f.owed)
    BY <1>2, <1>6, <2>1
  <2>3. /\ f.fn \in {"thread", "exit", "unlink"} => f.p \in Procs
        /\ Loop(f) => f.owed \subseteq Procs
    BY <2>2, FrameKinds DEF ThreadFrames, ExitFrames, UnlinkFrames, EventFrames, Loop
  <2>4. Thread(f) /\ f.how = "call" => su[f.p] = "called"
    BY <1>5, <2>2, <2>3 DEF FrameState, Thread
  <2>5. Leaving(f) => su[f.p] = "none"
    BY <1>5, <2>2, <2>3 DEF FrameState, Leaving
  <2>6. Loop(f) => \A q \in f.owed : su[q] # "none"
    BY <1>5, <2>2, <2>3 DEF FrameState
  <2> QED
    BY <2>1, <2>4, <2>5, <2>6 DEF FrameState
<1>12. FrameState(su, g) /\ FrameWalk(pl, nx, g)
  <2>1. g.owed \subseteq Procs /\ \A q \in g.owed : q # p /\ st[q] # "none" /\ q \in From(nx, pl)
    BY <1>2 DEF ExitFrames
  <2>2. FrameState(su, g)
    BY <1>2, <1>3, <1>5, <2>1 DEF FrameState
  <2>3. CursorOf(pl, nx, g) = pl
    BY <1>3 DEF CursorOf, StepOf
  <2> QED
    BY <2>1, <2>2, <2>3 DEF FrameWalk
<1>13. \A k \in 1 .. Len(t) : FrameState(su, t[k]) /\ FrameWalk(pl, nx, t[k])
  BY <1>1, <1>6, <1>11, <1>12
<1>14. TopOK(pl, nx, cur, t)
  BY <1>1, <1>3 DEF TopOK
<1>15. Kernel(pl, nx, su, cur, t)
  BY <1>3, <1>9, <1>10, <1>13, <1>14 DEF Kernel
<1> QED
  BY <1>2, <1>4, <1>15

\* Whom a function on top of s can call.
Callable(s, p) ==
  s # << >> =>
    LET f == s[Len(s)]
    IN  f.fn \in {"synch", "exit", "event"} \/ (Poll(f) /\ f.q = p)

\* call_process(): a process that runs is called.
LEMMA KernelCall ==
  ASSUME NEW pl, NEW nx, NEW st, NEW cur, NEW s, Kernel(pl, nx, st, cur, s),
         NEW p \in Procs, st[p] = "running", Callable(s, p),
         NEW g \in ThreadFrames, g.p = p, g.how = "call", NEW t, IsPush(s, g, t)
  PROVE  Kernel(pl, nx, [st EXCEPT ![p] = "called"], p, t)
<1>0. PICK su : su = [st EXCEPT ![p] = "called"]
  OBVIOUS
<1>1. Thread(g) /\ ~Leaving(g) /\ ~Poll(g) /\ ~Loop(g) /\ g.fn = "thread"
  BY DEF ThreadFrames, Thread, Leaving, Poll, Loop
<1>2. su[p] = "called" /\ p \in Refs
  BY <1>0 DEF Kernel, ListOK, Refs
<1>3. Kernel(pl, nx, su, cur, s)
  BY <1>0, KernelState
<1>4. \A k \in 1 .. Len(s) : ~Alike(s[k], g)
  <2> SUFFICES ASSUME NEW k \in 1 .. Len(s), Thread(s[k]), s[k].p = p
               PROVE  FALSE
    BY <1>1 DEF Alike
  <2>1. FrameState(st, s[k]) /\ s[k] \in AnyFrame /\ Len(s) \in Nat
    BY DEF Kernel, StackOK
  <2>2. s[k].how \in {"call", "exit"}
    BY <2>1, FrameKinds DEF ThreadFrames, Thread
  <2>3. s[k].how = "exit"
    BY <2>1, <2>2 DEF FrameState
  <2>4. k # 1
    BY <2>1, <2>3 DEF Kernel, StackOK, Bottom
  <2>5. OnTop(s[k - 1], s[k]) /\ k - 1 \in 1 .. Len(s)
    BY <2>1, <2>4 DEF Kernel, StackOK
  <2>6. Leaving(s[k - 1]) /\ s[k - 1].p = p
    BY <2>3, <2>5 DEF OnTop, Leaving
  <2>7. FrameState(st, s[k - 1])
    BY <2>5 DEF Kernel
  <2> QED
    BY <2>6, <2>7 DEF FrameState
<1>5. Bottom(g) /\ (s # << >> => OnTop(s[Len(s)], g))
  BY <1>1 DEF Bottom, Callable, OnTop, Thread, Poll
<1>6. FrameState(su, g) /\ FrameWalk(pl, nx, g)
  BY <1>1, <1>2 DEF FrameState, FrameWalk
<1>7. Kernel(pl, nx, su, p, t)
  BY <1>1, <1>2, <1>3, <1>4, <1>5, <1>6, KernelPush
<1> QED
  BY <1>0, <1>7

-----------------------------------------------------------------------------
(* Polls.                                                                  *)

\* The walks of do_poll() that are under way stay so.
KeepsPolls(s, t) ==
  \A k \in 1 .. Len(s) : Poll(s[k]) => \E j \in 1 .. Len(t) : t[j] = s[k]

LEMMA PushPolls ==
  ASSUME NEW s, NEW g, NEW t, IsPush(s, g, t)
  PROVE  KeepsPolls(s, t)
<1>1. \A k \in 1 .. Len(s) : k \in 1 .. Len(t) /\ t[k] = s[k]
  BY DEF IsPush
<1> QED
  BY <1>1 DEF KeepsPolls

LEMMA PopPolls ==
  ASSUME NEW s, NEW f, NEW t, IsPush(s, f, t), ~Poll(f)
  PROVE  KeepsPolls(t, s)
<1>1. \A k \in 1 .. Len(t) : (k \in 1 .. Len(s) /\ t[k] = s[k]) \/ t[k] = f
  BY DEF IsPush
<1> QED
  BY <1>1 DEF KeepsPolls

LEMMA GoingPolls ==
  ASSUME NEW s, NEW g, NEW t, IsGoing(s, g, t), ~Poll(s[Len(s)])
  PROVE  KeepsPolls(s, t)
<1>1. \A k \in 1 .. Len(s) : k \in 1 .. Len(t) /\ (t[k] = s[k] \/ s[k] = s[Len(s)])
  BY DEF IsGoing
<1> QED
  BY <1>1 DEF KeepsPolls

\* Polls are not lost while processes call each other.
LEMMA PollsCall ==
  ASSUME NEW pl, NEW nx, NEW st, NEW np, NEW pr, NEW s, NEW ask,
         Polls(pl, nx, st, np, pr, s, ask), NEW t, KeepsPolls(s, t),
         NEW su, NEW more, more \subseteq ask, \A p \in more : su[p] # "none"
  PROVE  Polls(pl, nx, su, np, pr, t, more)
<1>1. \A p \in ask : Polled(pl, nx, pr, s, p) => Polled(pl, nx, pr, t, p)
  BY DEF Polled, KeepsPolls
<1> QED
  BY <1>1 DEF Polls

LEMMA PollsKeep ==
  ASSUME NEW pl, NEW nx, NEW st, NEW np, NEW pr, NEW s, NEW ask,
         Polls(pl, nx, st, np, pr, s, ask), NEW t, KeepsPolls(s, t)
  PROVE  Polls(pl, nx, st, np, pr, t, ask)
<1>1. ask \subseteq ask /\ \A p \in ask : st[p] # "none"
  BY DEF Polls
<1> QED
  BY <1>1, PollsCall

\* Nor when one is linked or unlinked.
LEMMA PollsList ==
  ASSUME NEW pl, NEW nx, NEW st, NEW np, NEW pr, NEW s, NEW ask,
         Polls(pl, nx, st, np, pr, s, ask), s \in Seq(AnyFrame), NEW pm, NEW ny, NEW su,
         \A p \in ask : /\ su[p] # "none"
                        /\ p \in From(nx, pl) => p \in From(ny, pm)
                        /\ \A q \in Procs : p \in From(nx, nx[q]) => p \in From(ny, ny[q])
  PROVE  Polls(pm, ny, su, np, pr, s, ask)
<1>1. ASSUME NEW p \in ask, NEW k \in 1 .. Len(s), Poll(s[k]), p \in From(nx, StepOf(pl, nx, s[k]))
      PROVE  p \in From(ny, StepOf(pm, ny, s[k]))
  <2>1. s[k] \in AnyFrame
    OBVIOUS
  <2>2. s[k].q \in Refs
    BY <1>1, <2>1, FrameKinds DEF Poll, PollFrames, Refs
  <2> QED
    BY <1>1, <2>2 DEF StepOf, Refs
<1>2. \A p \in ask : Polled(pl, nx, pr, s, p) => Polled(pm, ny, pr, s, p)
  BY <1>1 DEF Polled
<1> QED
  BY <1>2 DEF Polls

-----------------------------------------------------------------------------
(* The functions of the kernel.                                            *)

\* Frames that the functions make.
LEMMA NewFrames ==
  /\ \A p \in Procs, ev \in {"INIT", "MSG", "POLL", "EXITED", "EXIT"}, how \in {"call", "exit"} :
       /\ ThreadFrame(p, ev, how) \in ThreadFrames
       /\ ThreadFrame(p, ev, how).p = p /\ ThreadFrame(p, ev, how).how = how
       /\ ThreadFrame(p, ev, how).fn = "thread"
  /\ process_current \in Refs =>
       SynchFrame \in SynchFrames /\ SynchFrame.fn = "synch" /\ SynchFrame.old = process_current
  /\ \A p \in Procs, from \in Refs, owed \in SUBSET Procs : process_current \in Refs =>
       LET f == ExitFrame(p, from, owed)
       IN  /\ f \in ExitFrames /\ f.fn = "exit" /\ f.p = p
           /\ f.old = process_current /\ f.q = Null /\ f.owed = owed
  /\ \A p \in Procs, old \in Refs :
       LET f == UnlinkFrame(p, old)
       IN  f \in UnlinkFrames /\ f.fn = "unlink" /\ f.p = p /\ f.old = old
  /\ \A owed \in SUBSET Procs :
       LET f == EventFrame(owed)
       IN  /\ f \in EventFrames /\ f.fn = "event" /\ f.q = Null /\ f.polled = FALSE
           /\ f.owed = owed
  /\ PollFrame \in PollFrames /\ PollFrame.fn = "poll" /\ PollFrame.q = Null
<1>1. MaxCalls \in Nat
  BY BoundsAssumption
<1>2. \A p \in Procs, ev \in {"INIT", "MSG", "POLL", "EXITED", "EXIT"}, how \in {"call", "exit"} :
       /\ ThreadFrame(p, ev, how) \in ThreadFrames
       /\ ThreadFrame(p, ev, how).p = p /\ ThreadFrame(p, ev, how).how = how
       /\ ThreadFrame(p, ev, how).fn = "thread"
  BY <1>1 DEF ThreadFrame, ThreadFrames
<1>3. process_current \in Refs =>
       SynchFrame \in SynchFrames /\ SynchFrame.fn = "synch" /\ SynchFrame.old = process_current
  BY DEF SynchFrame, SynchFrames, Refs
<1>4. ASSUME NEW p \in Procs, NEW from \in Refs, NEW owed \in SUBSET Procs, process_current \in Refs
      PROVE  LET f == ExitFrame(p, from, owed)
             IN  /\ f \in ExitFrames /\ f.fn = "exit" /\ f.p = p
                 /\ f.old = process_current /\ f.q = Null /\ f.owed = owed
  BY <1>4 DEF ExitFrame, ExitFrames, Refs
<1>5. ASSUME NEW p \in Procs, NEW old \in Refs
      PROVE  LET f == UnlinkFrame(p, old)
             IN  f \in UnlinkFrames /\ f.fn = "unlink" /\ f.p = p /\ f.old = old
  BY DEF UnlinkFrame, UnlinkFrames, Refs
<1>6. ASSUME NEW owed \in SUBSET Procs
      PROVE  LET f == EventFrame(owed)
             IN  /\ f \in EventFrames /\ f.fn = "event" /\ f.q = Null /\ f.polled = FALSE
                 /\ f.owed = owed
  BY DEF EventFrame, EventFrames
<1>7. PollFrame \in PollFrames /\ PollFrame.fn = "poll" /\ PollFrame.q = Null
  BY DEF PollFrame, PollFrames
<1> QED
  BY <1>2, <1>3, <1>4, <1>5, <1>6, <1>7

\* call_process(), whether the process runs or not.
LEMMA CallKeeps ==
  ASSUME NEW pl, NEW nx, NEW st, NEW s, NEW np, NEW pr, NEW ask,
         Kernel(pl, nx, st, process_current, s), Polls(pl, nx, st, np, pr, s, ask),
         NEW p \in Refs, Callable(s, p), NEW ev \in {"INIT", "MSG", "POLL", "EXITED", "EXIT"},
         CallProcess(p, ev, st, s)
  PROVE  /\ Kernel(pl, nx, state', process_current', stack')
         /\ Polls(pl, nx, state', np, pr, stack', ask)
<1>1. CASE p # Null /\ st[p] = "running"
  <2>1. PICK g : g = ThreadFrame(p, ev, "call")
    OBVIOUS
  <2>2. p \in Procs
    BY <1>1 DEF Refs
  <2>3. g \in ThreadFrames /\ g.p = p /\ g.how = "call"
    BY <2>1, <2>2, NewFrames
  <2>4. s \in Seq(AnyFrame) /\ g \in AnyFrame
    BY <2>3 DEF Kernel, StackOK, AnyFrame
  <2>5. PICK t : t = Append(s, g)
    OBVIOUS
  <2>6. IsPush(s, g, t)
    BY <2>4, <2>5, PushIs
  <2>7. Kernel(pl, nx, [st EXCEPT ![p] = "called"], p, t)
    BY <1>1, <2>2, <2>3, <2>6, KernelCall
  <2>8. state' = [st EXCEPT ![p] = "called"] /\ process_current' = p /\ stack' = t
    BY <1>1, <2>1, <2>5 DEF CallProcess
  <2>9. \A q \in ask : state'[q] # "none"
    BY <2>2, <2>8 DEF Kernel, ListOK, Polls
  <2>10. KeepsPolls(s, stack')
    BY <2>6, <2>8, PushPolls
  <2>11. Polls(pl, nx, state', np, pr, stack', ask)
    BY <2>9, <2>10, PollsCall
  <2> QED
    BY <2>7, <2>8, <2>11
<1>2. CASE ~(p # Null /\ st[p] = "running")
  <2>1. state' = st /\ stack' = s /\ process_current' = process_current
    BY <1>2 DEF CallProcess
  <2> QED
    BY <2>1
<1> QED
  BY <1>1, <1>2

\* process_post_synch() notes who calls it.
LEMMA SynchKeeps ==
  ASSUME NEW pl, NEW nx, NEW st, NEW s, Kernel(pl, nx, st, process_current, s),
         s # << >> => Thread(s[Len(s)]), NEW t, t = Append(s, SynchFrame)
  PROVE  /\ Kernel(pl, nx, st, process_current, t)
         /\ KeepsPolls(s, t) /\ \A p : Callable(t, p)
<1>1. PICK g, cur : g = SynchFrame /\ cur = process_current
  OBVIOUS
<1>2. cur \in Refs /\ s \in Seq(AnyFrame) /\ Kernel(pl, nx, st, cur, s) /\ TopOK(pl, nx, cur, s)
  BY <1>1 DEF Kernel, StackOK
<1>3. g \in SynchFrames /\ g.fn = "synch" /\ g.old = cur
  BY <1>1, <1>2, NewFrames
<1>4. ~Thread(g) /\ ~Leaving(g) /\ ~Poll(g) /\ ~Loop(g) /\ Bottom(g) /\ g \in AnyFrame
  BY <1>3 DEF Thread, Leaving, Poll, Loop, Bottom, AnyFrame
<1>5. IsPush(s, g, t)
  BY <1>1, <1>2, <1>4, PushIs
<1>6. s # << >> => OnTop(s[Len(s)], g)
  BY <1>2, <1>3, <1>4 DEF TopOK, OnTop, Thread, Poll
<1>7. \A k \in 1 .. Len(s) : ~Alike(s[k], g)
  BY <1>4 DEF Alike
<1>8. FrameState(st, g) /\ FrameWalk(pl, nx, g)
  BY <1>4 DEF FrameState, FrameWalk
<1>9. Kernel(pl, nx, st, cur, t)
  BY <1>2, <1>4, <1>5, <1>6, <1>7, <1>8, KernelPush
<1> QED
  BY <1>1, <1>3, <1>5, <1>9, PushPolls DEF Callable, IsPush

\* process_start(), by a protothread or by the main loop.
LEMMA StartKeeps ==
  ASSUME NEW s, NEW np, NEW pr, NEW ask,
         Kernel(process_list, next, state, process_current, s),
         Polls(process_list, next, state, np, pr, s, ask),
         s # << >> => Thread(s[Len(s)]), NEW p \in Procs, ProcessStart(p, s)
  PROVE  /\ Kernel(process_list', next', state', process_current', stack')
         /\ Polls(process_list', next', state', np, pr, stack', ask)
<1>1. Listed = From(next, process_list)
  BY ReachedIs DEF Listed
<1>2. CASE p \in Listed
  <2>1. /\ process_list' = process_list /\ next' = next /\ state' = state
        /\ process_current' = process_current /\ stack' = s
    BY <1>2 DEF ProcessStart, list
  <2> QED
    BY <2>1
<1>3. CASE p \notin Listed
  <2>1. PICK pl, nx, st, cur : /\ pl = process_list /\ nx = next /\ st = state
                               /\ cur = process_current
    OBVIOUS
  <2>2. Kernel(pl, nx, st, cur, s) /\ Polls(pl, nx, st, np, pr, s, ask) /\ p \notin From(nx, pl)
    BY <1>1, <1>3, <2>1
  <2>3. PICK ny : ny = [nx EXCEPT ![p] = pl]
    OBVIOUS
  <2>4. PICK su : su = [st EXCEPT ![p] = "running"]
    OBVIOUS
  <2>5. PICK g : g = SynchFrame
    OBVIOUS
  <2>6. PICK t : t = Append(s, g)
    OBVIOUS
  <2>7. /\ process_list' = p /\ next' = ny
        /\ CallProcess(p, "INIT", su, t)
    BY <1>3, <2>1, <2>3, <2>4, <2>5, <2>6 DEF ProcessStart
  <2>8. Linked(pl, nx, p, ny)
    BY <2>3 DEF Linked
  <2>9. Kernel(p, ny, su, cur, s)
    BY <2>2, <2>4, <2>8, KernelLink
  <2>10. s \in Seq(AnyFrame)
    BY <2>2 DEF Kernel, StackOK
  <2>11. Kernel(p, ny, su, cur, t) /\ KeepsPolls(s, t) /\ Callable(t, p)
    BY <2>1, <2>5, <2>6, <2>9, SynchKeeps
  <2>18. /\ st \in [Procs -> {"none", "running", "called"}]
         /\ nx \in Nexts /\ pl \in Refs /\ Ends(pl, nx)
         /\ \A q \in Procs : st[q] # "none" => q \in From(nx, pl)
    BY <2>2 DEF Kernel, ListOK
  <2>19. /\ From(ny, p) = From(nx, pl) \union {p}
         /\ \A q \in Procs : From(nx, nx[q]) \cap From(nx, pl) \subseteq From(ny, ny[q])
    BY <2>2, <2>8, <2>18, LinkKeeps
  <2>20. ASSUME NEW q \in ask
         PROVE  /\ su[q] # "none"
                /\ q \in From(nx, pl) => q \in From(ny, p)
                /\ \A r \in Procs : q \in From(nx, nx[r]) => q \in From(ny, ny[r])
    <3>1. q \in Procs /\ st[q] # "none" /\ q \in From(nx, pl)
      BY <2>2, <2>18 DEF Polls
    <3> QED
      BY <2>4, <2>18, <2>19, <3>1
  <2>21. Polls(p, ny, su, np, pr, s, ask)
    BY <2>2, <2>10, <2>20, PollsList
  <2>22. Polls(p, ny, su, np, pr, t, ask)
    BY <2>11, <2>20, <2>21, PollsCall
  <2>24. p \in Refs /\ Kernel(p, ny, su, process_current, t)
    BY <2>1, <2>11 DEF Refs
  <2>25. /\ Kernel(p, ny, state', process_current', stack')
         /\ Polls(p, ny, state', np, pr, stack', ask)
    BY <2>7, <2>11, <2>22, <2>24, CallKeeps
  <2> QED
    BY <2>7, <2>25
<1> QED
  BY <1>2, <1>3

\* What a frame is when no loop has to call p any more.
Forgot(f, p) == IF Loop(f) THEN [f EXCEPT !.owed = @ \ {p}] ELSE f

LEMMA ForgotSame ==
  ASSUME NEW f \in AnyFrame, NEW p
  PROVE  /\ Forgot(f, p) \in AnyFrame /\ Same(f, Forgot(f, p))
         /\ Loop(Forgot(f, p)) => p \notin Forgot(f, p).owed
<1>1. CASE f.fn = "exit"
  <2>1. f \in ExitFrames
    BY <1>1, FrameKinds
  <2>2. Forgot(f, p) = [f EXCEPT !.owed = f.owed \ {p}]
    BY <1>1 DEF Forgot, Loop
  <2>3. /\ Forgot(f, p) \in ExitFrames
        /\ Forgot(f, p).fn = f.fn /\ Forgot(f, p).p = f.p /\ Forgot(f, p).old = f.old
        /\ Forgot(f, p).q = f.q /\ Forgot(f, p).owed = f.owed \ {p}
    BY <2>1, <2>2 DEF ExitFrames
  <2> QED
    BY <1>1, <2>3 DEF Same, AnyFrame, Thread
<1>2. CASE f.fn = "event"
  <2>1. f \in EventFrames
    BY <1>2, FrameKinds
  <2>2. Forgot(f, p) = [f EXCEPT !.owed = f.owed \ {p}]
    BY <1>2 DEF Forgot, Loop
  <2>3. /\ Forgot(f, p) \in EventFrames
        /\ Forgot(f, p).fn = f.fn /\ Forgot(f, p).polled = f.polled
        /\ Forgot(f, p).q = f.q /\ Forgot(f, p).owed = f.owed \ {p}
    BY <2>1, <2>2 DEF EventFrames
  <2> QED
    BY <1>2, <2>3 DEF Same, AnyFrame, Thread
<1>3. CASE ~Loop(f)
  BY <1>3 DEF Forgot, Same
<1> QED
  BY <1>1, <1>2, <1>3 DEF Loop

LEMMA ForgetKeeps ==
  ASSUME NEW s \in Seq(AnyFrame), NEW p, NEW t, t = Forget(s, p)
  PROVE  /\ t \in Seq(AnyFrame) /\ Len(t) = Len(s)
         /\ \A k \in 1 .. Len(s) : Same(s[k], t[k]) /\ (Loop(t[k]) => p \notin t[k].owed)
         /\ KeepsPolls(s, t)
<1>0. Len(s) \in Nat /\ \A k \in 1 .. Len(s) : s[k] \in AnyFrame
  OBVIOUS
<1>1. t = [k \in 1 .. Len(s) |-> Forgot(s[k], p)]
  BY DEF Forget, Forgot, Loop
<1>2. \A k \in 1 .. Len(s) : Forgot(s[k], p) \in AnyFrame
  BY <1>0, ForgotSame
<1>3. t \in [1 .. Len(s) -> AnyFrame]
  <2> HIDE DEF AnyFrame
  <2> QED
    BY <1>1, <1>2
<1>4. t \in Seq(AnyFrame) /\ Len(t) = Len(s)
  BY <1>0, <1>3
<1>5. \A k \in 1 .. Len(s) : t[k] = Forgot(s[k], p)
  BY <1>1
<1>6. \A k \in 1 .. Len(s) : Same(s[k], t[k]) /\ (Loop(t[k]) => p \notin t[k].owed)
  BY <1>0, <1>5, ForgotSame
<1>7. \A k \in 1 .. Len(s) : Poll(s[k]) => t[k] = s[k]
  BY <1>5 DEF Poll, Forgot, Loop
<1> QED
  BY <1>4, <1>6, <1>7 DEF KeepsPolls

\* exit_process(), of a process that is not in the middle of a call.
LEMMA ExitKeeps ==
  ASSUME NEW s, NEW np, NEW pr,
         Kernel(process_list, next, state, process_current, s),
         Polls(process_list, next, state, np, pr, s, asked),
         NEW p \in Procs, NEW from \in Refs,
         \A k \in 1 .. Len(s) : ~(Thread(s[k]) /\ s[k].p = p),
         ~Leaves(s, p),
         s # << >> => (Poll(s[Len(s)]) => p = s[Len(s)].q),
         ExitProcess(p, from, s)
  PROVE  /\ Kernel(process_list', next', state', process_current, stack')
         /\ Polls(process_list', next', state', np, pr, stack', asked')
<1>1. PICK pl, nx, st, cur, ask : /\ pl = process_list /\ nx = next /\ st = state
                                  /\ cur = process_current /\ ask = asked
  OBVIOUS
<1>2. Listed = From(nx, pl)
  BY <1>1, ReachedIs DEF Listed
<1>3. Kernel(pl, nx, st, cur, s) /\ Polls(pl, nx, st, np, pr, s, ask)
  BY <1>1
<1>4. CASE p \notin Listed
  <2>1. /\ process_list' = pl /\ next' = nx /\ state' = st /\ stack' = s /\ asked' = ask
    BY <1>1, <1>4 DEF ExitProcess, list
  <2> QED
    BY <1>1, <1>3, <2>1
<1>5. CASE p \in Listed
  <2>1. st[p] # "none" /\ p \in From(nx, pl)
    BY <1>2, <1>3, <1>5 DEF Kernel, ListOK
  <2>2. PICK owed : owed = {q \in From(nx, pl) \ {p} : st[q] = "running"}
    OBVIOUS
  <2>3. PICK g : g = ExitFrame(p, from, owed)
    OBVIOUS
  <2>4. PICK u : u = Forget(s, p)
    OBVIOUS
  <2>5. PICK t : t = Append(u, g)
    OBVIOUS
  <2>6. owed = {q \in Listed \ {p} : state[q] = "running"}
    BY <1>1, <1>2, <2>2
  <2>7. /\ process_list' = pl /\ next' = nx /\ stack' = t
        /\ state' = [st EXCEPT ![p] = "none"] /\ asked' = ask \ {p}
    BY <1>1, <1>5, <2>1, <2>3, <2>4, <2>5, <2>6 DEF ExitProcess, list
  <2>8. owed \in SUBSET Procs /\ cur \in Refs /\ s \in Seq(AnyFrame)
    BY <1>3, <2>2, FromProcs DEF Kernel, StackOK
  <2>9. /\ g \in ExitFrames /\ g.fn = "exit" /\ g.p = p
        /\ g.old = cur /\ g.q = Null /\ g.owed = owed
    BY <1>1, <2>3, <2>8, NewFrames
  <2>10. /\ u \in Seq(AnyFrame) /\ Len(u) = Len(s) /\ KeepsPolls(s, u)
         /\ \A k \in 1 .. Len(s) : Same(s[k], u[k]) /\ (Loop(u[k]) => p \notin u[k].owed)
    BY <2>4, <2>8, ForgetKeeps
  <2>11. Kernel(pl, nx, st, cur, u)
    BY <1>3, <2>10, KernelSame
  <2>12. IsPush(u, g, t)
    BY <2>5, <2>9, <2>10, PushIs DEF AnyFrame
  <2>13. /\ \A k \in 1 .. Len(u) : ~(Thread(u[k]) /\ u[k].p = g.p)
         /\ \A k \in 1 .. Len(u) : Loop(u[k]) => g.p \notin u[k].owed
    BY <2>9, <2>10 DEF Same, Thread
  <2>14. u # << >> => (Poll(u[Len(u)]) => g.p = u[Len(u)].q)
    <3> SUFFICES ASSUME u # << >>, Poll(u[Len(u)])
                 PROVE  g.p = u[Len(u)].q
      OBVIOUS
    <3>1. s # << >> /\ Len(s) \in 1 .. Len(s)
      BY <2>8, <2>10
    <3>2. Same(s[Len(s)], u[Len(u)])
      BY <2>10, <3>1
    <3> QED
      BY <2>9, <3>1, <3>2 DEF Same, Poll
  <2>15. g.owed \subseteq {q \in From(nx, pl) \ {g.p} : st[q] # "none"}
    BY <2>2, <2>9
  <2>16. g.p \in From(nx, pl) /\ st[g.p] # "none" /\ g.old = cur /\ g.q = Null
    BY <2>1, <2>9
  <2>17. Kernel(pl, nx, [st EXCEPT ![g.p] = "none"], cur, t)
    BY <2>9, <2>11, <2>12, <2>13, <2>14, <2>15, <2>16, KernelExit
  <2>18. \A q \in ask \ {p} : state'[q] # "none"
    BY <1>3, <2>7 DEF Kernel, ListOK, Polls
  <2>19. KeepsPolls(u, t)
    BY <2>12, PushPolls
  <2>20. Polls(pl, nx, st, np, pr, u, ask)
    BY <1>3, <2>10, PollsKeep
  <2>21. Polls(pl, nx, state', np, pr, t, ask \ {p})
    <3>1. ask \ {p} \subseteq ask
      OBVIOUS
    <3> QED
      BY <2>18, <2>19, <2>20, <3>1, PollsCall
  <2> QED
    BY <1>1, <2>7, <2>9, <2>17, <2>21
<1> QED
  BY <1>4, <1>5

-----------------------------------------------------------------------------
(* The actions.                                                            *)

\* A protothread counts a call that it makes.
LEMMA CallingKeeps ==
  ASSUME Inv, MayCall, NEW c, c = Calling
  PROVE  /\ Kernel(process_list, next, state, process_current, c)
         /\ Polls(process_list, next, state, needspoll, poll_requested, c, asked)
         /\ c # << >> /\ Thread(c[Len(c)])
         /\ Len(c) = Len(stack)
         /\ \A k \in 1 .. Len(c) : Same(stack[k], c[k])
<1>1. PICK s, f, g : s = stack /\ f = TopFrame /\ g = [f EXCEPT !.calls = f.calls + 1]
  OBVIOUS
<1>2. /\ s \in Seq(AnyFrame) /\ s # << >> /\ f = s[Len(s)] /\ f.fn = "thread"
      /\ f.calls < MaxCalls /\ c = [s EXCEPT ![Len(s)] = g]
  BY <1>1 DEF Inv, Kernel, StackOK, MayCall, Top, TopFrame, Calling, Going
<1>3. f \in ThreadFrames
  BY <1>2, PopIs, FrameKinds
<1>4. MaxCalls \in Nat
  BY BoundsAssumption
<1>5. g \in ThreadFrames /\ g.fn = "thread" /\ g.p = f.p /\ g.how = f.how
  BY <1>1, <1>2, <1>3, <1>4 DEF ThreadFrames
<1>6. IsGoing(s, g, c)
  BY <1>2, <1>5, GoingIs DEF AnyFrame
<1>7. /\ c \in Seq(AnyFrame) /\ Len(c) = Len(s) /\ c # << >> /\ c[Len(c)] = g
      /\ \A k \in 1 .. Len(s) : c[k] = s[k] \/ (s[k] = f /\ c[k] = g)
  <2>1. /\ s \in Seq(AnyFrame) /\ c \in Seq(AnyFrame) /\ s # << >> /\ Len(c) = Len(s)
        /\ c[Len(c)] = g /\ \A k \in 1 .. Len(s) - 1 : c[k] = s[k]
    BY <1>6 DEF IsGoing
  <2>2. f = s[Len(s)]
    BY <1>2
  <2> HIDE DEF AnyFrame
  <2>3. Len(s) \in Nat /\ Len(s) > 0 /\ c # << >>
    BY <2>1
  <2> QED
    BY <2>1, <2>2, <2>3
<1>8. \A k \in 1 .. Len(s) : Same(s[k], c[k])
  <2>1. Same(f, g)
    BY <1>2, <1>5 DEF Same, Loop
  <2>2. \A x : Same(x, x)
    BY DEF Same
  <2> QED
    BY <1>7, <2>1, <2>2
<1>9. Kernel(process_list, next, state, process_current, c)
  BY <1>1, <1>7, <1>8, KernelSame DEF Inv
<1>10. KeepsPolls(s, c)
  BY <1>2, <1>6, GoingPolls DEF Poll
<1>11. Polls(process_list, next, state, needspoll, poll_requested, c, asked)
  BY <1>1, <1>10, PollsKeep DEF Inv
<1> QED
  BY <1>1, <1>5, <1>7, <1>8, <1>9, <1>11 DEF Thread

\* The queue and the main loop stay.
LEMMA QueueKeeps ==
  ASSUME Queue, UNCHANGED <<poll_requested, events, pc>>
  PROVE  Queue'
BY DEF Queue

\* What a protothread calls: process_start(),
LEMMA ThreadStartsKeeps ==
  ASSUME Inv, ThreadStarts
  PROVE  Inv'
<1>1. PICK c : c = Calling
  OBVIOUS
<1>2. PICK p \in Procs : ProcessStart(p, c)
  BY <1>1 DEF ThreadStarts
<1>3. /\ Kernel(process_list, next, state, process_current, c)
      /\ Polls(process_list, next, state, needspoll, poll_requested, c, asked)
      /\ Thread(c[Len(c)])
  BY <1>1, CallingKeeps DEF ThreadStarts, MayNest
<1>4. /\ Kernel(process_list', next', state', process_current', stack')
      /\ Polls(process_list', next', state', needspoll, poll_requested, stack', asked)
  BY <1>2, <1>3, StartKeeps
<1>5. /\ needspoll' = needspoll /\ poll_requested' = poll_requested /\ events' = events
      /\ pc' = pc /\ asked' = asked
  BY DEF ThreadStarts
<1>6. Queue'
  BY <1>5, QueueKeeps DEF Inv
<1> QED
  BY <1>4, <1>5, <1>6 DEF Inv

\* process_exit(),
LEMMA ThreadExitsKeeps ==
  ASSUME ~ExitActive, Inv, ThreadExits
  PROVE  Inv'
<1>1. PICK c : c = Calling
  OBVIOUS
<1>2. PICK p \in Procs : ~OnStack(p) /\ ExitProcess(p, process_current, c)
  BY <1>1 DEF ThreadExits
<1>3. /\ Kernel(process_list, next, state, process_current, c)
      /\ Polls(process_list, next, state, needspoll, poll_requested, c, asked)
      /\ Thread(c[Len(c)]) /\ Len(c) = Len(stack)
      /\ \A k \in 1 .. Len(c) : Same(stack[k], c[k])
  BY <1>1, CallingKeeps DEF ThreadExits, MayNest
<1>4. \A k \in 1 .. Len(c) : ~(c[k].fn \in {"thread", "exit", "unlink"} /\ c[k].p = p)
  BY <1>2, <1>3 DEF OnStack, Same
<1>5. /\ \A k \in 1 .. Len(c) : ~(Thread(c[k]) /\ c[k].p = p)
      /\ ~Leaves(c, p) /\ ~Poll(c[Len(c)])
  BY <1>3, <1>4 DEF Thread, Leaves, Leaving, Poll
<1>6. process_current \in Refs
  BY DEF Inv, Kernel
<1>7. /\ Kernel(process_list', next', state', process_current', stack')
      /\ Polls(process_list', next', state', needspoll, poll_requested, stack', asked')
  <2>1. /\ Kernel(process_list', next', state', process_current, stack')
        /\ Polls(process_list', next', state', needspoll, poll_requested, stack', asked')
    BY <1>2, <1>3, <1>5, <1>6, ExitKeeps
  <2> QED
    BY <2>1 DEF ThreadExits
<1>8. /\ needspoll' = needspoll /\ poll_requested' = poll_requested /\ events' = events
      /\ pc' = pc
  BY DEF ThreadExits
<1>9. Queue'
  BY <1>8, QueueKeeps DEF Inv
<1> QED
  BY <1>7, <1>8, <1>9 DEF Inv

\* process_post(), by a protothread or by the main loop.
LEMMA PostKeeps ==
  ASSUME Queue, NEW p \in Refs, ProcessPost(p), pc' \in {"poll", "event", "select"},
         UNCHANGED poll_requested
  PROVE  Queue'
<1>1. PICK e, T : e = events /\ T = Refs
  OBVIOUS
<1>2. e \in Seq(T) /\ Len(e) <= NumEvents /\ p \in T /\ NumEvents \in Nat
  BY <1>1, NumEventsAssumption DEF Queue
<1>3. events' = IF Len(e) = NumEvents THEN e ELSE Append(e, p)
  BY <1>1 DEF ProcessPost
<1>4. events' \in Seq(T) /\ Len(events') <= NumEvents
  <2>1. Append(e, p) \in Seq(T) /\ Len(Append(e, p)) = Len(e) + 1 /\ Len(e) \in Nat
    BY <1>2
  <2> QED
    BY <1>2, <1>3, <2>1
<1> QED
  BY <1>1, <1>4 DEF Queue

LEMMA ThreadPostsKeeps ==
  ASSUME Inv, ThreadPosts
  PROVE  Inv'
<1>1. PICK c : c = Calling
  OBVIOUS
<1>2. PICK p \in Refs : ProcessPost(p)
  BY DEF ThreadPosts, Refs
<1>3. /\ Kernel(process_list, next, state, process_current, c)
      /\ Polls(process_list, next, state, needspoll, poll_requested, c, asked)
  BY <1>1, CallingKeeps DEF ThreadPosts
<1>4. /\ process_list' = process_list /\ next' = next /\ state' = state
      /\ process_current' = process_current /\ stack' = c /\ asked' = asked
      /\ needspoll' = needspoll /\ poll_requested' = poll_requested /\ pc' = pc
  BY <1>1 DEF ThreadPosts, list
<1>5. Queue'
  BY <1>2, <1>4, PostKeeps DEF Inv, Queue
<1> QED
  BY <1>3, <1>4, <1>5 DEF Inv

\* process_post_synch(),
LEMMA ThreadPostsSynchKeeps ==
  ASSUME Inv, ThreadPostsSynch
  PROVE  Inv'
<1>1. PICK c, t : c = Calling /\ t = Append(c, SynchFrame)
  OBVIOUS
<1>2. PICK p \in Procs : CallProcess(p, "MSG", state, t)
  BY <1>1 DEF ThreadPostsSynch
<1>3. /\ Kernel(process_list, next, state, process_current, c)
      /\ Polls(process_list, next, state, needspoll, poll_requested, c, asked)
      /\ Thread(c[Len(c)])
  BY <1>1, CallingKeeps DEF ThreadPostsSynch, MayNest
<1>4. /\ Kernel(process_list, next, state, process_current, t)
      /\ KeepsPolls(c, t) /\ Callable(t, p)
  BY <1>1, <1>3, SynchKeeps
<1>5. Polls(process_list, next, state, needspoll, poll_requested, t, asked)
  BY <1>3, <1>4, PollsKeep
<1>6. p \in Refs
  BY DEF Refs
<1>7. /\ Kernel(process_list, next, state', process_current', stack')
      /\ Polls(process_list, next, state', needspoll, poll_requested, stack', asked)
  BY <1>2, <1>4, <1>5, <1>6, CallKeeps
<1>8. /\ process_list' = process_list /\ next' = next /\ asked' = asked
      /\ needspoll' = needspoll /\ poll_requested' = poll_requested /\ pc' = pc
      /\ events' = events
  BY DEF ThreadPostsSynch, list
<1>9. Queue'
  BY <1>8, QueueKeeps DEF Inv
<1> QED
  BY <1>7, <1>8, <1>9 DEF Inv

\* process_poll(), by a protothread or by the main loop.
LEMMA PollKeeps ==
  ASSUME NEW s, NEW p \in Procs, ProcessPoll(p), NEW pl, NEW nx,
         Polls(pl, nx, state, needspoll, poll_requested, s, asked)
  PROVE  Polls(pl, nx, state, needspoll', poll_requested', s, asked')
<1>1. CASE state[p] # "none"
  <2>1. /\ needspoll' = [needspoll EXCEPT ![p] = TRUE] /\ poll_requested' = TRUE
        /\ asked' = asked \union {p}
    BY <1>1 DEF ProcessPoll
  <2>2. /\ needspoll' \in [Procs -> BOOLEAN] /\ asked' \subseteq Procs
        /\ \A q \in asked' : needspoll'[q] /\ state[q] # "none"
    BY <1>1, <2>1 DEF Polls
  <2> QED
    BY <2>1, <2>2 DEF Polls, Polled
<1>2. CASE ~(state[p] # "none")
  BY <1>2 DEF ProcessPoll
<1> QED
  BY <1>1, <1>2

LEMMA PollRequestKeeps ==
  ASSUME Queue, NEW p \in Procs, ProcessPoll(p), pc' \in {"poll", "event", "select"},
         UNCHANGED events
  PROVE  Queue'
BY DEF Queue, ProcessPoll

LEMMA ThreadPollsKeeps ==
  ASSUME Inv, ThreadPolls
  PROVE  Inv'
<1>1. PICK c : c = Calling
  OBVIOUS
<1>2. PICK p \in Procs : ProcessPoll(p)
  BY DEF ThreadPolls
<1>3. /\ Kernel(process_list, next, state, process_current, c)
      /\ Polls(process_list, next, state, needspoll, poll_requested, c, asked)
  BY <1>1, CallingKeeps DEF ThreadPolls
<1>4. /\ process_list' = process_list /\ next' = next /\ state' = state
      /\ process_current' = process_current /\ stack' = c /\ pc' = pc /\ events' = events
  BY <1>1 DEF ThreadPolls, list
<1>5. Polls(process_list, next, state, needspoll', poll_requested', c, asked')
  BY <1>2, <1>3, PollKeeps
<1>6. Queue'
  BY <1>2, <1>4, PollRequestKeeps DEF Inv, Queue
<1> QED
  BY <1>3, <1>4, <1>5, <1>6 DEF Inv

\* The frame on top, and what is under it.
LEMMA TopIs ==
  ASSUME Inv, stack # << >>
  PROVE  /\ IsPush(Under, TopFrame, stack) /\ TopFrame \in AnyFrame
         /\ TopFrame = stack[Len(stack)]
         /\ FrameState(state, TopFrame) /\ FrameWalk(process_list, next, TopFrame)
         /\ StackOK(Under)
         /\ Under = << >> => Bottom(TopFrame)
         /\ Under # << >> => OnTop(Under[Len(Under)], TopFrame)
         /\ \A k \in 1 .. Len(Under) : ~Alike(Under[k], TopFrame)
<1>1. PICK s, u, f : s = stack /\ u = Under /\ f = TopFrame
  OBVIOUS
<1>2. /\ s \in Seq(AnyFrame) /\ s # << >> /\ f = s[Len(s)]
      /\ u = SubSeq(s, 1, Len(s) - 1) /\ StackOK(s)
  BY <1>1 DEF Inv, Kernel, StackOK, TopFrame, Under
<1>3. IsPush(u, f, s) /\ f \in AnyFrame
  BY <1>2, PopIs
<1>4. /\ StackOK(u)
      /\ u = << >> => Bottom(f)
      /\ u # << >> => OnTop(u[Len(u)], f)
      /\ \A k \in 1 .. Len(u) : ~Alike(u[k], f)
  BY <1>2, <1>3, PopStack
<1>5. Len(s) \in 1 .. Len(s)
  <2> HIDE DEF AnyFrame
  <2> QED
    BY <1>2
<1>6. FrameState(state, f) /\ FrameWalk(process_list, next, f)
  BY <1>1, <1>2, <1>5 DEF Inv, Kernel
<1> QED
  BY <1>1, <1>2, <1>3, <1>4, <1>6

\* A protothread returns: what it was called from goes on where it was.
LEMMA ReturnKeeps ==
  ASSUME Inv, Top("thread"), NEW u, u = Under
  PROVE  /\ Kernel(process_list, next, state, process_current, u)
         /\ Polls(process_list, next, state, needspoll, poll_requested, u, asked)
<1>1. PICK f : f = TopFrame
  OBVIOUS
<1>2. stack # << >> /\ f.fn = "thread"
  BY <1>1 DEF Top
<1>3. /\ IsPush(u, f, stack) /\ f \in AnyFrame /\ FrameState(state, f)
      /\ u # << >> => OnTop(u[Len(u)], f)
  BY <1>1, <1>2, TopIs
<1>4. f \in ThreadFrames /\ Thread(f) /\ ~Leaving(f) /\ ~Poll(f)
  BY <1>2, <1>3, FrameKinds DEF Thread, Leaving, Poll
<1>5. f.p \in Procs /\ f.p # Null /\ f.how \in {"call", "exit"}
  BY <1>4, NullAssumption DEF ThreadFrames
<1>6. TopOK(process_list, next, process_current, u)
  <2> SUFFICES ASSUME u # << >>, NEW h, h = u[Len(u)]
               PROVE  /\ Thread(h) => process_current = h.p
                      /\ Poll(h) => StepOf(process_list, next, h)
                                      \in From(next, process_list) \union {Null}
    BY DEF TopOK
  <2>1. OnTop(h, f)
    BY <1>3
  <2>2. ~Thread(h)
    BY <1>2, <2>1 DEF OnTop
  <2>3. ASSUME Poll(h)
        PROVE  StepOf(process_list, next, h) \in From(next, process_list) \union {Null}
    <3>1. h.q = f.p /\ f.how = "call"
      BY <1>4, <1>5, <2>1, <2>3 DEF OnTop, Poll
    <3>2. state[f.p] = "called"
      BY <1>3, <1>4, <3>1 DEF FrameState
    <3>3. f.p \in From(next, process_list)
      BY <1>5, <3>2 DEF Inv, Kernel, ListOK
    <3>4. next \in Nexts
      BY DEF Inv, Kernel, ListOK
    <3>5. next[f.p] \in From(next, process_list) \union {Null}
      BY <3>3, <3>4, FromClosed
    <3> QED
      BY <1>5, <3>1, <3>5 DEF StepOf
  <2> QED
    BY <2>2, <2>3
<1>7. Kernel(process_list, next, state, process_current, u)
  <2>1. process_current \in Refs /\ Kernel(process_list, next, state, process_current, stack)
    BY DEF Inv, Kernel
  <2> QED
    BY <1>3, <1>4, <1>6, <2>1, KernelPop
<1>8. Polls(process_list, next, state, needspoll, poll_requested, u, asked)
  BY <1>3, <1>4, PopPolls, PollsKeep DEF Inv
<1> QED
  BY <1>7, <1>8

LEMMA ThreadYieldsKeeps ==
  ASSUME Inv, ThreadYields
  PROVE  Inv'
<1>1. PICK f, u : f = TopFrame /\ u = Under
  OBVIOUS
<1>2. stack # << >> /\ f.fn = "thread" /\ Top("thread")
  BY <1>1 DEF ThreadYields, Top
<1>3. /\ f \in AnyFrame /\ FrameState(state, f)
      /\ \A k \in 1 .. Len(u) : ~Alike(u[k], f)
  BY <1>1, <1>2, TopIs
<1>4. f \in ThreadFrames /\ Thread(f) /\ f.p \in Procs
  BY <1>2, <1>3, FrameKinds DEF Thread, ThreadFrames
<1>5. /\ Kernel(process_list, next, state, process_current, u)
      /\ Polls(process_list, next, state, needspoll, poll_requested, u, asked)
  BY <1>1, <1>2, ReturnKeeps
<1>6. /\ process_list' = process_list /\ next' = next /\ stack' = u
      /\ state' = IF f.how = "call" THEN [state EXCEPT ![f.p] = "running"] ELSE state
      /\ process_current' = process_current /\ pc' = pc /\ events' = events
      /\ needspoll' = needspoll /\ poll_requested' = poll_requested /\ asked' = asked
  BY <1>1 DEF ThreadYields, list, Caller
<1>7. Kernel(process_list, next, state', process_current, u)
  <2>1. CASE f.how = "call"
    <3>1. state[f.p] # "none"
      BY <1>3, <1>4, <2>1 DEF FrameState
    <3>2. \A k \in 1 .. Len(u) : ~(Thread(u[k]) /\ u[k].how = "call" /\ u[k].p = f.p)
      BY <1>3, <1>4 DEF Alike
    <3>3. Kernel(process_list, next, [state EXCEPT ![f.p] = "running"], process_current, u)
      BY <1>4, <1>5, <3>1, <3>2, KernelState
    <3> QED
      BY <1>6, <2>1, <3>3
  <2>2. CASE f.how # "call"
    BY <1>5, <1>6, <2>2
  <2> QED
    BY <2>1, <2>2
<1>8. Polls(process_list, next, state', needspoll, poll_requested, u, asked)
  <2>1. \A q \in asked : state'[q] # "none"
    BY <1>4, <1>5, <1>6 DEF Polls, Kernel, ListOK
  <2>2. KeepsPolls(u, u)
    BY DEF KeepsPolls
  <2>3. asked \subseteq asked
    OBVIOUS
  <2> QED
    BY <1>5, <2>1, <2>2, <2>3, PollsCall
<1>9. Queue'
  BY <1>6, QueueKeeps DEF Inv
<1> QED
  BY <1>6, <1>7, <1>8, <1>9 DEF Inv

LEMMA ThreadEndsKeeps ==
  ASSUME Inv, ThreadEnds
  PROVE  Inv'
<1>1. PICK f, u : f = TopFrame /\ u = Under
  OBVIOUS
<1>2. stack # << >> /\ f.fn = "thread" /\ f.how = "call" /\ Top("thread")
  BY <1>1 DEF ThreadEnds, Top
<1>3. /\ f \in AnyFrame /\ FrameState(state, f)
      /\ u # << >> => OnTop(u[Len(u)], f)
      /\ \A k \in 1 .. Len(u) : ~Alike(u[k], f)
  BY <1>1, <1>2, TopIs
<1>4. f \in ThreadFrames /\ Thread(f) /\ f.p \in Procs /\ f.p \in Refs
  BY <1>2, <1>3, FrameKinds DEF Thread, ThreadFrames, Refs
<1>5. /\ Kernel(process_list, next, state, process_current, u)
      /\ Polls(process_list, next, state, needspoll, poll_requested, u, asked)
  BY <1>1, <1>2, ReturnKeeps
<1>6. state[f.p] = "called"
  BY <1>2, <1>3, <1>4 DEF FrameState
<1>7. \A k \in 1 .. Len(u) : ~(Thread(u[k]) /\ u[k].p = f.p)
  BY <1>3, <1>4 DEF Alike
<1>8. ~Leaves(u, f.p)
  BY <1>5, <1>6 DEF Leaves, Kernel, FrameState
<1>9. u # << >> => (Poll(u[Len(u)]) => f.p = u[Len(u)].q)
  BY <1>3 DEF OnTop
<1>10. ExitProcess(f.p, f.p, u)
  BY <1>1 DEF ThreadEnds, Caller
<1>11. /\ Kernel(process_list', next', state', process_current, stack')
       /\ Polls(process_list', next', state', needspoll, poll_requested, stack', asked')
  BY <1>4, <1>5, <1>7, <1>8, <1>9, <1>10, ExitKeeps
<1>12. /\ needspoll' = needspoll /\ poll_requested' = poll_requested /\ events' = events
       /\ pc' = pc /\ process_current' = process_current
  BY DEF ThreadEnds
<1>13. Queue'
  BY <1>12, QueueKeeps DEF Inv
<1> QED
  BY <1>11, <1>12, <1>13 DEF Inv

LEMMA EndSynchKeeps ==
  ASSUME Inv, EndSynch
  PROVE  Inv'
<1>1. PICK f, u : f = TopFrame /\ u = Under
  OBVIOUS
<1>2. stack # << >> /\ f.fn = "synch"
  BY <1>1 DEF EndSynch, Top
<1>3. /\ IsPush(u, f, stack) /\ f \in AnyFrame
      /\ u # << >> => OnTop(u[Len(u)], f)
  BY <1>1, <1>2, TopIs
<1>4. f \in SynchFrames /\ ~Leaving(f) /\ ~Poll(f) /\ f.old \in Refs
  BY <1>2, <1>3, FrameKinds DEF SynchFrames, Leaving, Poll, Refs
<1>5. TopOK(process_list, next, f.old, u)
  <2> SUFFICES ASSUME u # << >>, NEW h, h = u[Len(u)]
               PROVE  (Thread(h) => f.old = h.p) /\ ~Poll(h)
    BY DEF TopOK
  <2> QED
    BY <1>2, <1>3 DEF OnTop
<1>6. Kernel(process_list, next, state, f.old, u)
  <2>1. Kernel(process_list, next, state, process_current, stack)
    BY DEF Inv
  <2> QED
    BY <1>3, <1>4, <1>5, <2>1, KernelPop
<1>7. Polls(process_list, next, state, needspoll, poll_requested, u, asked)
  BY <1>3, <1>4, PopPolls, PollsKeep DEF Inv
<1>8. /\ process_list' = process_list /\ next' = next /\ state' = state
      /\ process_current' = f.old /\ stack' = u /\ pc' = pc /\ events' = events
      /\ needspoll' = needspoll /\ poll_requested' = poll_requested /\ asked' = asked
  BY <1>1 DEF EndSynch, list
<1>9. Queue'
  BY <1>8, QueueKeeps DEF Inv
<1> QED
  BY <1>6, <1>7, <1>8, <1>9 DEF Inv

LEMMA EndExitKeeps ==
  ASSUME Inv, EndExit
  PROVE  Inv'
<1>1. PICK f, u : f = TopFrame /\ u = Under
  OBVIOUS
<1>2. stack # << >> /\ f.fn = "unlink"
  BY <1>1 DEF EndExit, Top
<1>3. IsPush(u, f, stack) /\ f \in AnyFrame /\ FrameState(state, f) /\ StackOK(u)
  BY <1>1, <1>2, TopIs
<1>4. f \in UnlinkFrames /\ Leaving(f) /\ ~Poll(f) /\ f.p \in Procs
  BY <1>2, <1>3, FrameKinds DEF UnlinkFrames, Leaving, Poll
<1>5. /\ state' = state /\ process_current' = f.old /\ stack' = u /\ pc' = pc
      /\ events' = events /\ needspoll' = needspoll /\ poll_requested' = poll_requested
      /\ asked' = asked
      /\ f.p \in Listed => Unlink(f.p)
  BY <1>1 DEF EndExit, Restored
<1>6. Listed = From(next, process_list)
  BY ReachedIs DEF Listed
<1>7. PICK pl, nx, pm, ny : /\ pl = process_list /\ nx = next
                            /\ pm = process_list' /\ ny = next'
  OBVIOUS
<1>8. Kernel(pl, nx, state, process_current, stack)
  BY <1>7 DEF Inv
<1>9. f.p \in From(nx, pl)
  <2>1. state[f.p] = "none" /\ Leaves(stack, f.p)
    <3>1. Len(stack) \in 1 .. Len(stack) /\ stack[Len(stack)] = f
      BY <1>3 DEF IsPush
    <3> QED
      BY <1>3, <1>4, <3>1 DEF FrameState, Leaves
  <2> QED
    BY <1>4, <1>8, <2>1 DEF Kernel, ListOK
<1>10. Unlinked(pl, nx, f.p, pm, ny)
  <2>1. Unlink(f.p)
    BY <1>5, <1>6, <1>7, <1>9
  <2> QED
    BY <1>6, <1>7, <2>1 DEF Unlink, Unlinked
<1>11. Kernel(pm, ny, state, f.old, u)
  BY <1>2, <1>3, <1>8, <1>10, KernelUnlink
<1>12. Polls(pl, nx, state, needspoll, poll_requested, u, asked)
  BY <1>3, <1>4, <1>7, PopPolls, PollsKeep DEF Inv
<1>13. Polls(pm, ny, state, needspoll, poll_requested, u, asked)
  <2>1. pl \in Refs /\ nx \in Nexts /\ Ends(pl, nx)
    BY <1>8 DEF Kernel, ListOK
  <2>2. PICK p : p = f.p
    OBVIOUS
  <2>3. /\ From(nx, pl) \ {p} \subseteq From(ny, pm)
        /\ \A q \in Procs : From(nx, nx[q]) \ {p} \subseteq From(ny, ny[q])
    <3>1. p \in From(nx, pl) /\ Unlinked(pl, nx, p, pm, ny)
      BY <1>9, <1>10, <2>2
    <3> QED
      BY <2>1, <3>1, UnlinkKeeps
  <2>4. \A q \in asked : state[q] # "none" /\ q # p
    BY <1>3, <1>4, <1>12, <2>2 DEF Polls, FrameState
  <2>5. \A q \in asked : /\ state[q] # "none"
                         /\ q \in From(nx, pl) => q \in From(ny, pm)
                         /\ \A r \in Procs : q \in From(nx, nx[r]) => q \in From(ny, ny[r])
    BY <2>3, <2>4
  <2>6. u \in Seq(AnyFrame)
    BY <1>3 DEF StackOK
  <2> QED
    BY <1>12, <2>5, <2>6, PollsList
<1>14. Queue'
  BY <1>5, QueueKeeps DEF Inv
<1> QED
  BY <1>5, <1>7, <1>11, <1>13, <1>14 DEF Inv

\* Where a loop goes is a process or the end.
LEMMA CursorIs ==
  ASSUME NEW pl, NEW nx, NEW st, NEW cur, NEW s, Kernel(pl, nx, st, cur, s),
         NEW f \in AnyFrame, Loop(f)
  PROVE  CursorOf(pl, nx, f) \in Refs
<1>1. f.q \in Refs
  BY FrameKinds DEF Loop, ExitFrames, EventFrames, Refs
<1>2. pl \in Refs /\ nx \in Nexts
  BY DEF Kernel, ListOK
<1>3. StepOf(pl, nx, f) \in Refs
  BY <1>1, <1>2 DEF StepOf, Refs, Nexts
<1> QED
  BY <1>1, <1>3 DEF CursorOf

\* A loop comes to the process that it goes to.
LEMMA LoopKeeps ==
  ASSUME NEW pl, NEW nx, NEW st, NEW cur, NEW s, Kernel(pl, nx, st, cur, s),
         NEW f \in AnyFrame, s # << >>, f = s[Len(s)], Loop(f),
         FrameState(st, f), FrameWalk(pl, nx, f),
         NEW q \in Procs, q = CursorOf(pl, nx, f),
         NEW g \in AnyFrame, g.fn = f.fn, g.q = q, g.owed = f.owed \ {q},
         f.fn = "exit" => g.p = f.p /\ g.old = f.old,
         f.fn = "event" => ~g.polled,
         NEW t, IsGoing(s, g, t)
  PROVE  /\ Kernel(pl, nx, st, cur, t)
         /\ KeepsPolls(s, t) /\ \A p : Callable(t, p)
<1>1. q # Null
  BY NullAssumption
<1>2. SameRole(f, g)
  BY DEF SameRole, Bottom, OnTop, Alike, Thread, Poll, Leaving, Loop
<1>3. FrameState(st, g)
  BY DEF FrameState, Thread, Leaving, Loop
<1>4. FrameWalk(pl, nx, g)
  <2>1. nx \in Nexts
    BY DEF Kernel, ListOK
  <2>2. From(nx, q) = {q} \union From(nx, nx[q])
    BY <2>1, FromStep
  <2>3. CursorOf(pl, nx, g) = nx[q]
    BY <1>1 DEF CursorOf, StepOf, Loop
  <2>4. f.owed \subseteq From(nx, q)
    BY DEF FrameWalk
  <2> QED
    BY <2>2, <2>3, <2>4 DEF FrameWalk
<1>5. ~Thread(g) /\ ~Poll(g) /\ ~Poll(f)
  BY DEF Thread, Poll, Loop
<1>6. Kernel(pl, nx, st, cur, t)
  BY <1>2, <1>3, <1>4, <1>5, KernelGoing
<1>7. KeepsPolls(s, t)
  BY <1>5, GoingPolls
<1>8. \A p : Callable(t, p)
  BY DEF Callable, IsGoing, Loop
<1> QED
  BY <1>6, <1>7, <1>8

\* The loop of exit_process() has come to its end.
LEMMA LeaveKeeps ==
  ASSUME NEW pl, NEW nx, NEW st, NEW cur, NEW s, Kernel(pl, nx, st, cur, s),
         NEW f \in ExitFrames, s # << >>, f = s[Len(s)], FrameState(st, f),
         NEW g \in UnlinkFrames, g.p = f.p, g.old = f.old,
         NEW t, IsGoing(s, g, t)
  PROVE  /\ Kernel(pl, nx, st, cur, t)
         /\ KeepsPolls(s, t)
<1>1. f.fn = "exit" /\ g.fn = "unlink"
  BY DEF ExitFrames, UnlinkFrames
<1>2. SameRole(f, g)
  BY <1>1 DEF SameRole, Bottom, OnTop, Alike, Thread, Poll, Leaving
<1>3. FrameState(st, g) /\ FrameWalk(pl, nx, g)
  BY <1>1 DEF FrameState, FrameWalk, Thread, Leaving, Loop
<1>4. ~Thread(g) /\ ~Poll(g) /\ ~Poll(f)
  BY <1>1 DEF Thread, Poll
<1>5. Kernel(pl, nx, st, cur, t)
  BY <1>2, <1>3, <1>4, KernelGoing
<1> QED
  BY <1>4, <1>5, GoingPolls

\* The process that leaves is told, if it is not the one that exits itself.
LEMMA LastCallKeeps ==
  ASSUME NEW pl, NEW nx, NEW st, NEW cur, NEW s, Kernel(pl, nx, st, cur, s),
         s # << >>, NEW f \in UnlinkFrames, f = s[Len(s)],
         NEW g \in ThreadFrames, g.p = f.p, g.how = "exit",
         NEW t, IsPush(s, g, t)
  PROVE  Kernel(pl, nx, st, g.p, t)
<1>1. f.fn = "unlink" /\ g.fn = "thread" /\ f.p \in Procs /\ f.p \in Refs
  BY DEF UnlinkFrames, ThreadFrames, Refs
<1>2. Len(s) \in Nat /\ Len(s) \in 1 .. Len(s) /\ s \in Seq(AnyFrame) /\ StackOK(s)
  <2>1. s \in Seq(AnyFrame) /\ StackOK(s)
    BY DEF Kernel, StackOK
  <2> HIDE DEF AnyFrame
  <2> QED
    BY <2>1
<1>3. st[f.p] = "none"
  BY <1>1, <1>2 DEF Kernel, FrameState, Leaving
<1>4. ASSUME NEW k \in 1 .. Len(s), Thread(s[k]), s[k].p = f.p
      PROVE  FALSE
  <2>1. s[k] \in AnyFrame /\ FrameState(st, s[k])
    BY <1>2 DEF Kernel
  <2>2. s[k].how \in {"call", "exit"}
    BY <1>4, <2>1, FrameKinds DEF ThreadFrames, Thread
  <2>3. s[k].how = "exit"
    BY <1>3, <1>4, <2>1, <2>2 DEF FrameState
  <2>4. k # 1
    BY <1>2, <1>4, <2>3 DEF StackOK, Bottom
  <2>5. OnTop(s[k - 1], s[k]) /\ k - 1 \in 1 .. Len(s) /\ k - 1 # Len(s)
    BY <1>2, <2>4 DEF StackOK
  <2>6. s[k - 1].fn = "unlink" /\ s[k - 1].p = f.p
    BY <1>4, <2>3, <2>5 DEF OnTop
  <2>7. Alike(s[k - 1], s[Len(s)])
    BY <1>1, <2>6 DEF Alike, Leaving
  <2> QED
    BY <1>2, <2>5, <2>7 DEF StackOK, Once
<1>5. \A k \in 1 .. Len(s) : ~Alike(s[k], g)
  BY <1>1, <1>4 DEF Alike, Leaving
<1>6. OnTop(s[Len(s)], g) /\ ~Leaving(g) /\ ~Poll(g)
  BY <1>1 DEF OnTop, Thread, Poll, Leaving
<1>7. FrameState(st, g) /\ FrameWalk(pl, nx, g)
  BY <1>1 DEF FrameState, FrameWalk, Leaving, Loop
<1> QED
  BY <1>1, <1>5, <1>6, <1>7, KernelPush

LEMMA TellExitKeeps ==
  ASSUME Inv, TellExit
  PROVE  Inv'
<1>1. PICK f : f = TopFrame
  OBVIOUS
<1>2. stack # << >> /\ f.fn = "exit"
  BY <1>1 DEF TellExit, Top
<1>3. /\ f \in AnyFrame /\ f = stack[Len(stack)]
      /\ FrameState(state, f) /\ FrameWalk(process_list, next, f)
  BY <1>1, <1>2, TopIs
<1>4. f \in ExitFrames /\ Loop(f) /\ ~Poll(f)
  BY <1>2, <1>3, FrameKinds DEF Loop, Poll
<1>5. PICK pl, nx, st, cur, s : /\ pl = process_list /\ nx = next /\ st = state
                                /\ cur = process_current /\ s = stack
  OBVIOUS
<1>6. /\ Kernel(pl, nx, st, cur, s) /\ s \in Seq(AnyFrame)
      /\ Polls(pl, nx, st, needspoll, poll_requested, s, asked)
  BY <1>5 DEF Inv, Kernel, StackOK
<1>7. PICK q : q = CursorOf(pl, nx, f)
  OBVIOUS
<1>8. q \in Refs /\ q = Step(f)
  <2>1. Step(f) = CursorOf(pl, nx, f)
    BY <1>2, <1>5 DEF Step, CursorOf, StepOf
  <2> QED
    BY <1>3, <1>4, <1>6, <1>7, <2>1, CursorIs
<1>9. /\ process_list' = process_list /\ next' = next /\ pc' = pc
      /\ events' = events /\ needspoll' = needspoll /\ poll_requested' = poll_requested
      /\ asked' = asked
  BY DEF TellExit, list
<1>10. /\ Kernel(pl, nx, state', process_current', stack')
       /\ Polls(pl, nx, state', needspoll, poll_requested, stack', asked)
  <2>1. CASE q # Null
    <3>1. PICK g : g = At(f, q)
      OBVIOUS
    <3>2. PICK t : t = [s EXCEPT ![Len(s)] = g]
      OBVIOUS
    <3>3. g = [f EXCEPT !.q = q, !.owed = f.owed \ {q}]
      BY <1>2, <3>1 DEF At
    <3>4. /\ g \in ExitFrames /\ g.fn = f.fn /\ g.q = q /\ g.owed = f.owed \ {q}
          /\ g.p = f.p /\ g.old = f.old
      BY <1>4, <1>8, <3>3 DEF ExitFrames, Refs
    <3>5. g \in AnyFrame
      BY <3>4 DEF AnyFrame
    <3>6. IsGoing(s, g, t)
      BY <1>2, <1>5, <1>6, <3>2, <3>5, GoingIs
    <3>7. q \in Procs /\ f.fn # "event" /\ s # << >> /\ f = s[Len(s)]
          /\ FrameState(st, f) /\ FrameWalk(pl, nx, f)
      BY <1>2, <1>3, <1>5, <1>8, <2>1 DEF Refs
    <3>8. Kernel(pl, nx, st, cur, t) /\ KeepsPolls(s, t) /\ Callable(t, q)
      BY <1>3, <1>4, <1>6, <1>7, <3>4, <3>5, <3>6, <3>7, LoopKeeps
    <3>9. Polls(pl, nx, st, needspoll, poll_requested, t, asked)
      BY <1>6, <3>8, PollsKeep
    <3>10. \/ CallProcess(q, "EXITED", st, t)
           \/ stack' = t /\ state' = st /\ process_current' = cur
      BY <1>1, <1>5, <1>8, <2>1, <3>1, <3>2 DEF TellExit, Going
    <3>11. ASSUME CallProcess(q, "EXITED", st, t)
           PROVE  /\ Kernel(pl, nx, state', process_current', stack')
                  /\ Polls(pl, nx, state', needspoll, poll_requested, stack', asked)
      <4>1. Kernel(pl, nx, st, process_current, t)
        BY <1>5, <3>8
      <4> QED
        BY <1>8, <3>8, <3>9, <3>11, <4>1, CallKeeps
    <3> QED
      BY <3>8, <3>9, <3>10, <3>11
  <2>2. CASE q = Null
    <3>1. PICK g : g = UnlinkFrame(f.p, f.old)
      OBVIOUS
    <3>2. PICK t : t = [s EXCEPT ![Len(s)] = g]
      OBVIOUS
    <3>3. f.p \in Procs /\ f.old \in Refs
      BY <1>4 DEF ExitFrames, Refs
    <3>4. g \in UnlinkFrames /\ g.p = f.p /\ g.old = f.old
      BY <3>1, <3>3, NewFrames
    <3>5. g \in AnyFrame
      BY <3>4 DEF AnyFrame
    <3>6. IsGoing(s, g, t)
      BY <1>2, <1>5, <1>6, <3>2, <3>5, GoingIs
    <3>7. Kernel(pl, nx, st, cur, t) /\ KeepsPolls(s, t)
      BY <1>2, <1>3, <1>4, <1>5, <1>6, <3>4, <3>6, LeaveKeeps
    <3>8. Polls(pl, nx, st, needspoll, poll_requested, t, asked)
      BY <1>6, <3>7, PollsKeep
    <3>9. PICK h : h = ThreadFrame(f.p, "EXIT", "exit")
      OBVIOUS
    <3>10. PICK w : w = Append(t, h)
      OBVIOUS
    <3>11. /\ state' = st
           /\ \/ stack' = w /\ process_current' = f.p
              \/ stack' = t /\ process_current' = cur
      BY <1>1, <1>5, <1>8, <2>2, <3>1, <3>2, <3>9, <3>10 DEF TellExit, Going
    <3>12. h \in ThreadFrames /\ h.p = f.p /\ h.how = "exit"
      BY <3>3, <3>9, NewFrames
    <3>13. IsPush(t, h, w)
      <4>1. t \in Seq(AnyFrame) /\ h \in AnyFrame
        BY <3>6, <3>12 DEF IsGoing, AnyFrame
      <4> QED
        BY <3>10, <4>1, PushIs
    <3>14. t # << >> /\ g = t[Len(t)]
      <4>1. s \in Seq(AnyFrame) /\ t \in Seq(AnyFrame) /\ s # << >> /\ Len(t) = Len(s)
            /\ t[Len(t)] = g
        BY <3>6 DEF IsGoing
      <4> HIDE DEF AnyFrame
      <4> QED
        BY <4>1
    <3>15. Kernel(pl, nx, st, f.p, w)
      BY <3>4, <3>7, <3>12, <3>13, <3>14, LastCallKeeps
    <3>16. Polls(pl, nx, st, needspoll, poll_requested, w, asked)
      BY <3>8, <3>13, PushPolls, PollsKeep
    <3> QED
      BY <3>7, <3>8, <3>11, <3>15, <3>16
  <2> QED
    BY <2>1, <2>2
<1>11. Queue'
  BY <1>9, QueueKeeps DEF Inv
<1> QED
  BY <1>5, <1>9, <1>10, <1>11 DEF Inv

\* do_poll() runs from the main loop or from the loop of do_event(): nobody is in the
\* middle of a call, nor of an exit.
LEMMA PollAlone ==
  ASSUME NEW s, StackOK(s), s # << >>, Poll(s[Len(s)])
  PROVE  \A k \in 1 .. Len(s) : s[k].fn \in {"poll", "event"}
<1>1. PICK n : n = Len(s)
  OBVIOUS
<1>2. n \in Nat /\ n > 0
  <2>1. s \in Seq(AnyFrame)
    BY DEF StackOK
  <2> HIDE DEF AnyFrame
  <2> QED
    BY <1>1, <2>1
<1>3. \A k \in 2 .. n : OnTop(s[k - 1], s[k])
  BY <1>1 DEF StackOK
<1>4. s[n].fn = "poll"
  BY <1>1 DEF Poll
<1>5. n >= 2 => s[n - 1].fn = "event"
  BY <1>2, <1>3, <1>4 DEF OnTop, Poll
<1>6. n <= 2
  <2> SUFFICES ASSUME n > 2
               PROVE  FALSE
    BY <1>2
  <2>1. OnTop(s[(n - 1) - 1], s[n - 1])
    BY <1>2, <1>3
  <2> QED
    BY <1>2, <1>5, <2>1 DEF OnTop
<1>7. \A k \in 1 .. n : k = n \/ (n >= 2 /\ k = n - 1)
  BY <1>2, <1>6
<1> QED
  BY <1>1, <1>4, <1>5, <1>7

\* More of those that are asked for are still to be polled, as npp tells, but not q.
StillToPoll(ask, q, more, npp) ==
  /\ npp \in [Procs -> BOOLEAN]
  /\ more \subseteq ask /\ q \notin more
  /\ \A p \in more : npp[p]

\* do_poll() comes to q: those that are asked for, but for q, are still to come.
LEMMA PollLoopKeeps ==
  ASSUME NEW pl, NEW nx, NEW st, NEW cur, NEW s, Kernel(pl, nx, st, cur, s),
         NEW f \in PollFrames, s # << >>, f = s[Len(s)],
         NEW q \in From(nx, pl), q = StepOf(pl, nx, f),
         NEW g \in PollFrames, g.q = q, NEW t, IsGoing(s, g, t),
         NEW np, NEW pr, NEW ask, Polls(pl, nx, st, np, pr, s, ask),
         NEW npp, NEW more, StillToPoll(ask, q, more, npp)
  PROVE  /\ Kernel(pl, nx, st, cur, t)
         /\ Polls(pl, nx, st, npp, pr, t, more)
         /\ Callable(t, q)
         /\ \A k \in 1 .. Len(t) : ~Thread(t[k])
         /\ st[q] # "none"
<1>1. f.fn = "poll" /\ g.fn = "poll" /\ Poll(f) /\ Poll(g) /\ q \in Procs /\ q # Null
  BY FromProcs, NullAssumption DEF PollFrames, Poll
<1>2. nx \in Nexts /\ pl \in Refs
  BY DEF Kernel, ListOK
<1>3. From(nx, q) = {q} \union From(nx, nx[q]) /\ nx[q] \in From(nx, pl) \union {Null}
  BY <1>1, <1>2, FromStep, FromClosed
<1>4. StepOf(pl, nx, g) = nx[q]
  BY <1>1 DEF StepOf
<1>5. SameRole(f, g)
  BY <1>1 DEF SameRole, Bottom, OnTop, Alike, Thread, Poll, Leaving
<1>6. FrameState(st, g) /\ FrameWalk(pl, nx, g) /\ ~Thread(g)
  BY <1>1 DEF FrameState, FrameWalk, Thread, Leaving, Loop
<1>7. Kernel(pl, nx, st, cur, t)
  BY <1>3, <1>4, <1>5, <1>6, KernelGoing
<1>8. \A k \in 1 .. Len(s) : s[k].fn \in {"poll", "event"}
  BY <1>1, PollAlone DEF Kernel
<1>9. \A k \in 1 .. Len(t) : k \in 1 .. Len(s) /\ (t[k] = s[k] \/ t[k] = g)
  BY DEF IsGoing
<1>10. \A k \in 1 .. Len(t) : ~Thread(t[k])
  BY <1>6, <1>8, <1>9 DEF Thread
<1>11. st[q] # "none"
  <2>1. ~Leaves(s, q)
    BY <1>8 DEF Leaves, Leaving
  <2> QED
    BY <1>1, <2>1 DEF Kernel, ListOK
<1>12. Callable(t, q)
  BY <1>1 DEF Callable, IsGoing
<1>13. ASSUME NEW p \in more
       PROVE  Polled(pl, nx, pr, t, p)
  <2>1. Polled(pl, nx, pr, s, p)
    BY DEF Polls, StillToPoll
  <2>2. CASE pr
    BY <2>2 DEF Polled
  <2>3. ASSUME NEW k \in 1 .. Len(s), Poll(s[k]), p \in From(nx, StepOf(pl, nx, s[k]))
        PROVE  Polled(pl, nx, pr, t, p)
    <3>1. CASE k = Len(s)
      <4>1. p \in From(nx, nx[q])
        BY <1>3, <2>3, <3>1 DEF StillToPoll
      <4>2. Len(s) \in 1 .. Len(t) /\ t[Len(s)] = g
        BY <3>1 DEF IsGoing
      <4> QED
        BY <1>1, <1>4, <4>1, <4>2 DEF Polled
    <3>2. CASE k # Len(s)
      <4>1. k \in 1 .. Len(t) /\ t[k] = s[k]
        BY <3>2 DEF IsGoing
      <4> QED
        BY <2>3, <4>1 DEF Polled
    <3> QED
      BY <3>1, <3>2
  <2> QED
    BY <2>1, <2>2, <2>3 DEF Polled
<1>14. Polls(pl, nx, st, npp, pr, t, more)
  BY <1>13 DEF Polls, StillToPoll
<1> QED
  BY <1>7, <1>10, <1>11, <1>12, <1>14

LEMMA WalkPollKeeps ==
  ASSUME Inv, WalkPoll
  PROVE  Inv'
<1>1. PICK f, u : f = TopFrame /\ u = Under
  OBVIOUS
<1>2. stack # << >> /\ f.fn = "poll"
  BY <1>1 DEF WalkPoll, Top
<1>3. /\ f \in AnyFrame /\ f = stack[Len(stack)] /\ IsPush(u, f, stack)
      /\ u # << >> => OnTop(u[Len(u)], f)
  BY <1>1, <1>2, TopIs
<1>4. f \in PollFrames /\ Poll(f) /\ ~Leaving(f)
  BY <1>2, <1>3, FrameKinds DEF Poll, Leaving
<1>5. PICK pl, nx, st, cur, s, np, ask :
         /\ pl = process_list /\ nx = next /\ st = state /\ cur = process_current
         /\ s = stack /\ np = needspoll /\ ask = asked
  OBVIOUS
<1>6. /\ Kernel(pl, nx, st, cur, s) /\ s \in Seq(AnyFrame) /\ cur \in Refs
      /\ Polls(pl, nx, st, np, poll_requested, s, ask)
  BY <1>5 DEF Inv, Kernel, StackOK
<1>7. PICK q : q = StepOf(pl, nx, f)
  OBVIOUS
<1>8. q \in From(nx, pl) \union {Null} /\ q = Step(f)
  <2>1. q = Step(f)
    BY <1>5, <1>7 DEF Step, StepOf
  <2>2. TopOK(pl, nx, cur, s)
    BY <1>6 DEF Kernel
  <2> QED
    BY <1>2, <1>3, <1>4, <1>5, <1>7, <2>1, <2>2 DEF TopOK
<1>9. /\ process_list' = process_list /\ next' = next /\ pc' = pc
      /\ events' = events /\ poll_requested' = poll_requested
  BY DEF WalkPoll, list
<1>10. /\ Kernel(pl, nx, state', process_current', stack')
       /\ Polls(pl, nx, state', needspoll', poll_requested, stack', asked')
  <2>1. CASE q = Null
    <3>1. state' = st /\ process_current' = cur /\ stack' = u /\ needspoll' = np /\ asked' = ask
      BY <1>1, <1>5, <1>8, <2>1 DEF WalkPoll
    <3>2. TopOK(pl, nx, cur, u)
      BY <1>3, <1>4 DEF TopOK, OnTop, Thread, Poll
    <3>3. Kernel(pl, nx, st, cur, u)
      BY <1>3, <1>4, <1>5, <1>6, <3>2, KernelPop
    <3>4. ASSUME NEW p \in ask
          PROVE  Polled(pl, nx, poll_requested, u, p)
      <4>1. Polled(pl, nx, poll_requested, s, p)
        BY <1>6 DEF Polls
      <4>2. p \notin From(nx, StepOf(pl, nx, f))
        BY <1>7, <2>1, FromNull
      <4>3. \A k \in 1 .. Len(s) : (k \in 1 .. Len(u) /\ u[k] = s[k]) \/ s[k] = f
        BY <1>3, <1>5 DEF IsPush
      <4> QED
        BY <4>1, <4>2, <4>3 DEF Polled
    <3>5. Polls(pl, nx, st, np, poll_requested, u, ask)
      BY <1>6, <3>4 DEF Polls
    <3> QED
      BY <3>1, <3>3, <3>5
  <2>2. CASE q # Null
    <3>1. PICK g : g = At(f, q)
      OBVIOUS
    <3>2. PICK t : t = [s EXCEPT ![Len(s)] = g]
      OBVIOUS
    <3>3. q \in From(nx, pl) /\ q \in Procs /\ q \in Refs
      BY <1>8, <2>2, FromProcs DEF Refs
    <3>4. g = [f EXCEPT !.q = q]
      BY <1>2, <3>1 DEF At
    <3>5. g \in PollFrames /\ g.q = q
      BY <1>4, <3>3, <3>4 DEF PollFrames, Refs
    <3>6. IsGoing(s, g, t)
      <4>1. g \in AnyFrame
        BY <3>5 DEF AnyFrame
      <4> QED
        BY <1>2, <1>5, <1>6, <3>2, <4>1, GoingIs
    <3>7. f = s[Len(s)] /\ s # << >> /\ np \in [Procs -> BOOLEAN] /\ \A p \in ask : np[p]
      BY <1>2, <1>3, <1>5, <1>6 DEF Polls
    <3>8. CASE np[q]
      <4>1. PICK npp, more : npp = [np EXCEPT ![q] = FALSE] /\ more = ask \ {q}
        OBVIOUS
      <4>2. PICK su : su = [st EXCEPT ![q] = "running"]
        OBVIOUS
      <4>3. needspoll' = npp /\ asked' = more /\ CallProcess(q, "POLL", su, t)
        BY <1>1, <1>5, <1>8, <2>2, <3>1, <3>2, <3>8, <4>1, <4>2 DEF WalkPoll, Going, StillAsked
      <4>4. StillToPoll(ask, q, more, npp)
        BY <1>6, <3>3, <3>7, <4>1 DEF Polls, StillToPoll
      <4>5. /\ Kernel(pl, nx, st, cur, t)
            /\ Polls(pl, nx, st, npp, poll_requested, t, more)
            /\ Callable(t, q) /\ st[q] # "none"
            /\ \A k \in 1 .. Len(t) : ~Thread(t[k])
        BY <1>4, <1>6, <1>7, <3>3, <3>5, <3>6, <3>7, <4>4, PollLoopKeeps
      <4>6. Kernel(pl, nx, su, process_current, t)
        BY <1>5, <3>3, <4>2, <4>5, KernelState
      <4>7. Polls(pl, nx, su, npp, poll_requested, t, more)
        <5>1. \A p \in more : su[p] # "none"
          BY <3>3, <4>2, <4>5 DEF Polls, Kernel, ListOK
        <5>2. KeepsPolls(t, t) /\ more \subseteq more
          BY DEF KeepsPolls
        <5> QED
          BY <4>5, <5>1, <5>2, PollsCall
      <4>8. /\ Kernel(pl, nx, state', process_current', stack')
            /\ Polls(pl, nx, state', npp, poll_requested, stack', more)
        BY <3>3, <4>3, <4>5, <4>6, <4>7, CallKeeps
      <4> QED
        BY <4>3, <4>8
    <3>9. CASE ~np[q]
      <4>1. /\ stack' = t /\ state' = st /\ process_current' = cur /\ needspoll' = np
            /\ asked' = ask
        BY <1>1, <1>5, <1>8, <2>2, <3>1, <3>2, <3>9 DEF WalkPoll, Going
      <4>2. StillToPoll(ask, q, ask, np)
        BY <3>7, <3>9 DEF StillToPoll
      <4>3. /\ Kernel(pl, nx, st, cur, t)
            /\ Polls(pl, nx, st, np, poll_requested, t, ask)
        BY <1>4, <1>6, <1>7, <3>3, <3>5, <3>6, <3>7, <4>2, PollLoopKeeps
      <4> QED
        BY <4>1, <4>3
    <3> QED
      BY <3>8, <3>9
  <2> QED
    BY <2>1, <2>2
<1>11. Queue'
  BY <1>9, QueueKeeps DEF Inv
<1> QED
  BY <1>5, <1>9, <1>10, <1>11 DEF Inv

LEMMA WalkEventKeeps ==
  ASSUME Inv, WalkEvent
  PROVE  Inv'
<1>1. PICK f, u : f = TopFrame /\ u = Under
  OBVIOUS
<1>2. stack # << >> /\ f.fn = "event"
  BY <1>1 DEF WalkEvent, Top
<1>3. /\ f \in AnyFrame /\ f = stack[Len(stack)] /\ IsPush(u, f, stack)
      /\ FrameState(state, f) /\ FrameWalk(process_list, next, f)
      /\ u # << >> => OnTop(u[Len(u)], f)
  BY <1>1, <1>2, TopIs
<1>4. f \in EventFrames /\ Loop(f) /\ ~Poll(f) /\ ~Leaving(f) /\ f.polled \in BOOLEAN
  BY <1>2, <1>3, FrameKinds DEF Loop, Poll, Leaving, EventFrames
<1>5. PICK pl, nx, st, cur, s : /\ pl = process_list /\ nx = next /\ st = state
                                /\ cur = process_current /\ s = stack
  OBVIOUS
<1>6. /\ Kernel(pl, nx, st, cur, s) /\ s \in Seq(AnyFrame) /\ cur \in Refs
      /\ Polls(pl, nx, st, needspoll, poll_requested, s, asked)
  BY <1>5 DEF Inv, Kernel, StackOK
<1>7. PICK q : q = CursorOf(pl, nx, f)
  OBVIOUS
<1>8. q \in Refs /\ q = IF f.polled THEN f.q ELSE Step(f)
  <2>1. CursorOf(pl, nx, f) = IF f.polled THEN f.q ELSE Step(f)
    BY <1>2, <1>5 DEF Step, CursorOf, StepOf
  <2> QED
    BY <1>3, <1>4, <1>6, <1>7, <2>1, CursorIs
<1>9. /\ process_list' = process_list /\ next' = next /\ pc' = pc
      /\ events' = events /\ needspoll' = needspoll /\ asked' = asked
  BY DEF WalkEvent, list
<1>10. /\ s # << >> /\ f = s[Len(s)] /\ FrameState(st, f) /\ FrameWalk(pl, nx, f)
       /\ IsPush(u, f, s)
  BY <1>2, <1>3, <1>5
<1>11. CASE q = Null
  <2>1. state' = st /\ process_current' = cur /\ stack' = u /\ poll_requested' = poll_requested
    BY <1>1, <1>5, <1>8, <1>11 DEF WalkEvent
  <2>2. TopOK(pl, nx, cur, u)
    BY <1>2, <1>3 DEF TopOK, OnTop
  <2>3. Kernel(pl, nx, st, cur, u)
    BY <1>4, <1>6, <1>10, <2>2, KernelPop
  <2>4. Polls(pl, nx, st, needspoll, poll_requested, u, asked)
    BY <1>4, <1>6, <1>10, PopPolls, PollsKeep
  <2>5. Queue'
    BY <1>9, <2>1, QueueKeeps DEF Inv
  <2> QED
    BY <1>5, <1>9, <2>1, <2>3, <2>4, <2>5 DEF Inv
<1>12. CASE q # Null /\ poll_requested /\ ~f.polled
  <2>1. PICK g, h : g = [f EXCEPT !.q = q, !.polled = TRUE] /\ h = PollFrame
    OBVIOUS
  <2>2. PICK t : t = [s EXCEPT ![Len(s)] = g]
    OBVIOUS
  <2>3. PICK w : w = Append(t, h)
    OBVIOUS
  <2>4. /\ poll_requested' = FALSE /\ stack' = w /\ state' = st /\ process_current' = cur
    BY <1>1, <1>5, <1>8, <1>12, <2>1, <2>2, <2>3 DEF WalkEvent, Going
  <2>5. g \in EventFrames /\ g.fn = "event" /\ g.q = q /\ g.polled /\ g.owed = f.owed
    BY <1>2, <1>4, <1>8, <2>1 DEF EventFrames, Refs
  <2>6. g \in AnyFrame /\ ~Poll(g) /\ ~Thread(g) /\ ~Leaving(g)
    BY <2>5 DEF AnyFrame, Poll, Thread, Leaving
  <2>7. IsGoing(s, g, t)
    BY <1>6, <1>10, <2>2, <2>6, GoingIs
  <2>8. SameRole(f, g)
    BY <1>2, <2>5 DEF SameRole, Bottom, OnTop, Alike, Thread, Poll, Leaving
  <2>9. FrameState(st, g)
    BY <1>2, <1>10, <2>5 DEF FrameState, Thread, Leaving, Loop
  <2>10. FrameWalk(pl, nx, g)
    BY <1>4, <1>7, <1>10, <2>5 DEF FrameWalk, CursorOf
  <2>11. Kernel(pl, nx, st, cur, t)
    BY <1>6, <1>10, <2>6, <2>7, <2>8, <2>9, <2>10, KernelGoing
  <2>12. h \in PollFrames /\ h.fn = "poll" /\ h.q = Null
    BY <2>1, NewFrames
  <2>13. Poll(h) /\ ~Thread(h) /\ ~Leaving(h) /\ ~Loop(h) /\ h \in AnyFrame
    BY <2>12 DEF Poll, Thread, Leaving, Loop, AnyFrame
  <2>14. t \in Seq(AnyFrame) /\ t # << >> /\ t[Len(t)] = g
    <3>1. /\ s \in Seq(AnyFrame) /\ t \in Seq(AnyFrame) /\ s # << >> /\ Len(t) = Len(s)
          /\ t[Len(t)] = g
      BY <2>7 DEF IsGoing
    <3> HIDE DEF AnyFrame
    <3> QED
      BY <3>1
  <2>15. IsPush(t, h, w)
    BY <2>3, <2>13, <2>14, PushIs
  <2>16. OnTop(t[Len(t)], h)
    BY <2>5, <2>6, <2>12, <2>13, <2>14 DEF OnTop
  <2>17. \A k \in 1 .. Len(t) : ~Alike(t[k], h)
    BY <2>13 DEF Alike
  <2>18. FrameState(st, h) /\ FrameWalk(pl, nx, h)
    BY <2>13 DEF FrameState, FrameWalk
  <2>19. StepOf(pl, nx, h) = pl /\ pl \in From(nx, pl) \union {Null}
    <3>1. pl \in Refs
      BY <1>6 DEF Kernel, ListOK
    <3> QED
      BY <2>12, <3>1, FromHas DEF StepOf, Refs
  <2>20. Kernel(pl, nx, st, cur, w)
    BY <1>6, <2>11, <2>13, <2>14, <2>15, <2>16, <2>17, <2>18, <2>19, KernelPush
  <2>21. Polls(pl, nx, st, needspoll, FALSE, w, asked)
    <3>1. \A p \in asked : st[p] # "none" /\ needspoll[p] /\ p \in From(nx, pl)
      BY <1>6 DEF Polls, Kernel, ListOK
    <3>2. Len(w) \in 1 .. Len(w) /\ w[Len(w)] = h
      BY <2>15 DEF IsPush
    <3>3. \A p \in asked : Polled(pl, nx, FALSE, w, p)
      BY <2>13, <2>19, <3>1, <3>2 DEF Polled
    <3> QED
      BY <1>6, <3>1, <3>3 DEF Polls
  <2>22. Queue'
    BY <1>9, <2>4 DEF Inv, Queue
  <2> QED
    BY <1>5, <1>9, <2>4, <2>20, <2>21, <2>22 DEF Inv
<1>13. CASE q # Null /\ ~(poll_requested /\ ~f.polled)
  <2>1. PICK g : g = [At(f, q) EXCEPT !.polled = FALSE]
    OBVIOUS
  <2>2. PICK t : t = [s EXCEPT ![Len(s)] = g]
    OBVIOUS
  <2>3. CallProcess(q, "MSG", st, t) /\ poll_requested' = poll_requested
    BY <1>1, <1>5, <1>8, <1>13, <2>1, <2>2 DEF WalkEvent, Going
  <2>4. /\ g \in EventFrames /\ g.fn = f.fn /\ g.q = q /\ g.owed = f.owed \ {q} /\ ~g.polled
    BY <1>2, <1>4, <1>8, <2>1 DEF At, EventFrames, Refs
  <2>5. g \in AnyFrame /\ f.fn # "exit" /\ q \in Procs
    BY <1>2, <1>8, <1>13, <2>4 DEF AnyFrame, Refs
  <2>6. IsGoing(s, g, t)
    BY <1>6, <1>10, <2>2, <2>5, GoingIs
  <2>7. Kernel(pl, nx, st, cur, t) /\ KeepsPolls(s, t) /\ Callable(t, q)
    BY <1>3, <1>4, <1>6, <1>7, <1>10, <2>4, <2>5, <2>6, LoopKeeps
  <2>8. Polls(pl, nx, st, needspoll, poll_requested, t, asked)
    BY <1>6, <2>7, PollsKeep
  <2>9. Kernel(pl, nx, st, process_current, t)
    BY <1>5, <2>7
  <2>10. /\ Kernel(pl, nx, state', process_current', stack')
         /\ Polls(pl, nx, state', needspoll, poll_requested, stack', asked)
    BY <1>8, <2>3, <2>7, <2>8, <2>9, CallKeeps
  <2>11. Queue'
    BY <1>9, <2>3, QueueKeeps DEF Inv
  <2> QED
    BY <1>5, <1>9, <2>3, <2>10, <2>11 DEF Inv
<1> QED
  BY <1>11, <1>12, <1>13

\* The main loop: nothing is on the stack.
LEMMA RunPollsKeeps ==
  ASSUME Inv, RunPolls
  PROVE  Inv'
<1>1. /\ process_list' = process_list /\ next' = next /\ state' = state
      /\ process_current' = process_current /\ pc' = "event" /\ events' = events
      /\ needspoll' = needspoll /\ asked' = asked /\ poll_requested' = FALSE
      /\ stack = << >> /\ stack' = IF poll_requested THEN <<PollFrame>> ELSE << >>
  BY DEF RunPolls, list, Idle
<1>2. PICK pl, nx, st, cur, s : /\ pl = process_list /\ nx = next /\ st = state
                                /\ cur = process_current /\ s = stack
  OBVIOUS
<1>3. /\ Kernel(pl, nx, st, cur, s) /\ s \in Seq(AnyFrame) /\ cur \in Refs
      /\ Polls(pl, nx, st, needspoll, poll_requested, s, asked)
  BY <1>2 DEF Inv, Kernel, StackOK
<1>4. Queue'
  BY <1>1 DEF Inv, Queue
<1>5. CASE poll_requested
  <2>1. PICK h : h = PollFrame
    OBVIOUS
  <2>2. PICK w : w = Append(s, h)
    OBVIOUS
  <2>3. stack' = w
    BY <1>1, <1>2, <1>5, <2>1, <2>2
  <2>4. h \in PollFrames /\ h.fn = "poll" /\ h.q = Null
    BY <2>1, NewFrames
  <2>5. Poll(h) /\ ~Thread(h) /\ ~Leaving(h) /\ ~Loop(h) /\ h \in AnyFrame /\ Bottom(h)
    BY <2>4 DEF Poll, Thread, Leaving, Loop, AnyFrame, Bottom
  <2>6. IsPush(s, h, w)
    BY <1>3, <2>2, <2>5, PushIs
  <2>7. \A k \in 1 .. Len(s) : ~Alike(s[k], h)
    BY <2>5 DEF Alike
  <2>8. FrameState(st, h) /\ FrameWalk(pl, nx, h)
    BY <2>5 DEF FrameState, FrameWalk
  <2>9. StepOf(pl, nx, h) = pl /\ pl \in From(nx, pl) \union {Null}
    <3>1. pl \in Refs
      BY <1>3 DEF Kernel, ListOK
    <3> QED
      BY <2>4, <3>1, FromHas DEF StepOf, Refs
  <2>10. s = << >>
    BY <1>1, <1>2
  <2>11. Kernel(pl, nx, st, cur, w)
    BY <1>3, <2>5, <2>6, <2>7, <2>8, <2>9, <2>10, KernelPush
  <2>12. Polls(pl, nx, st, needspoll, FALSE, w, asked)
    <3>1. \A p \in asked : st[p] # "none" /\ needspoll[p] /\ p \in From(nx, pl)
      BY <1>3 DEF Polls, Kernel, ListOK
    <3>2. Len(w) \in 1 .. Len(w) /\ w[Len(w)] = h
      BY <2>6 DEF IsPush
    <3>3. \A p \in asked : Polled(pl, nx, FALSE, w, p)
      BY <2>5, <2>9, <3>1, <3>2 DEF Polled
    <3> QED
      BY <1>3, <3>1, <3>3 DEF Polls
  <2> QED
    BY <1>1, <1>2, <1>4, <2>3, <2>11, <2>12 DEF Inv
<1>6. CASE ~poll_requested
  <2>1. poll_requested' = poll_requested /\ stack' = stack
    BY <1>1, <1>6 DEF Inv, Queue
  <2> QED
    BY <1>1, <1>4, <2>1 DEF Inv
<1> QED
  BY <1>5, <1>6

LEMMA RunEventKeeps ==
  ASSUME Inv, RunEvent
  PROVE  Inv'
<1>1. /\ process_list' = process_list /\ next' = next /\ pc' = "select"
      /\ needspoll' = needspoll /\ asked' = asked /\ poll_requested' = poll_requested
      /\ stack = << >>
  BY DEF RunEvent, list, Idle
<1>2. PICK pl, nx, st, cur, s : /\ pl = process_list /\ nx = next /\ st = state
                                /\ cur = process_current /\ s = stack
  OBVIOUS
<1>3. /\ Kernel(pl, nx, st, cur, s) /\ s \in Seq(AnyFrame) /\ cur \in Refs /\ s = << >>
      /\ Polls(pl, nx, st, needspoll, poll_requested, s, asked)
  BY <1>1, <1>2 DEF Inv, Kernel, StackOK
<1>4. CASE events = << >>
  <2>1. state' = state /\ process_current' = process_current /\ stack' = stack
        /\ events' = events
    BY <1>4 DEF RunEvent
  <2>2. Queue'
    BY <1>1, <2>1 DEF Inv, Queue
  <2> QED
    BY <1>1, <2>1, <2>2 DEF Inv
<1>5. CASE events # << >>
  <2>1. PICK e, T : e = events /\ T = Refs
    OBVIOUS
  <2>2. e \in Seq(T) /\ Len(e) <= NumEvents /\ e # << >> /\ NumEvents \in Nat
    BY <1>5, <2>1, NumEventsAssumption DEF Inv, Queue
  <2>3. Tail(e) \in Seq(T) /\ Len(Tail(e)) <= NumEvents /\ Head(e) \in T
    BY <2>2
  <2>4. events' = Tail(e)
    BY <1>5, <2>1 DEF RunEvent
  <2>5. Queue'
    BY <1>1, <2>1, <2>3, <2>4 DEF Inv, Queue
  <2>6. CASE Head(e) = Null
    <3>1. PICK owed : owed = {p \in From(nx, pl) : st[p] # "none"}
      OBVIOUS
    <3>2. PICK h : h = EventFrame(owed)
      OBVIOUS
    <3>3. PICK w : w = Append(s, h)
      OBVIOUS
    <3>4. Listed = From(nx, pl)
      BY <1>2, ReachedIs DEF Listed
    <3>5. owed = {p \in Listed : state[p] # "none"}
      BY <1>2, <3>1, <3>4
    <3>6. stack' = w /\ state' = st /\ process_current' = cur
      BY <1>2, <1>3, <1>5, <2>1, <2>6, <3>2, <3>3, <3>5 DEF RunEvent
    <3>7. owed \in SUBSET Procs
      BY <3>1, FromProcs
    <3>8. /\ h \in EventFrames /\ h.fn = "event" /\ h.q = Null /\ ~h.polled /\ h.owed = owed
      BY <3>2, <3>7, NewFrames
    <3>9. ~Poll(h) /\ ~Thread(h) /\ ~Leaving(h) /\ h \in AnyFrame /\ Bottom(h)
      BY <3>8 DEF Poll, Thread, Leaving, AnyFrame, Bottom
    <3>10. IsPush(s, h, w)
      BY <1>3, <3>3, <3>9, PushIs
    <3>11. \A k \in 1 .. Len(s) : ~Alike(s[k], h)
      BY <3>9 DEF Alike
    <3>12. FrameState(st, h)
      BY <3>1, <3>8, <3>9 DEF FrameState
    <3>13. FrameWalk(pl, nx, h)
      BY <3>1, <3>8 DEF FrameWalk, CursorOf, StepOf
    <3>14. Kernel(pl, nx, st, cur, w)
      BY <1>3, <3>9, <3>10, <3>11, <3>12, <3>13, KernelPush
    <3>15. Polls(pl, nx, st, needspoll, poll_requested, w, asked)
      BY <1>3, <3>10, PushPolls, PollsKeep
    <3> QED
      BY <1>1, <1>2, <2>5, <3>6, <3>14, <3>15 DEF Inv
  <2>7. CASE Head(e) # Null
    <3>1. PICK p \in Refs : p = Head(e)
      BY <2>1, <2>3
    <3>2. CallProcess(p, "MSG", st, s)
      BY <1>2, <1>3, <1>5, <2>1, <2>7, <3>1 DEF RunEvent
    <3>3. Callable(s, p)
      BY <1>3 DEF Callable
    <3>4. Kernel(pl, nx, st, process_current, s)
      BY <1>2, <1>3
    <3>5. /\ Kernel(pl, nx, state', process_current', stack')
          /\ Polls(pl, nx, state', needspoll, poll_requested, stack', asked)
      BY <1>3, <3>2, <3>3, <3>4, CallKeeps
    <3> QED
      BY <1>1, <1>2, <2>5, <3>5 DEF Inv
  <2> QED
    BY <2>6, <2>7
<1> QED
  BY <1>4, <1>5

LEMMA SelectKeeps ==
  ASSUME Inv, Select
  PROVE  Inv'
<1>1. stack = << >> /\ pc' = "poll"
  BY DEF Select, Idle
<1>2. PICK s : s = stack
  OBVIOUS
<1>3. /\ s = << >>
      /\ Kernel(process_list, next, state, process_current, s)
      /\ Polls(process_list, next, state, needspoll, poll_requested, s, asked)
  BY <1>1, <1>2 DEF Inv
<1>4. CASE /\ \E p \in Procs : ProcessStart(p, << >>)
           /\ UNCHANGED <<needspoll, poll_requested, events, asked>>
  <2>1. PICK p \in Procs : ProcessStart(p, s)
    BY <1>3, <1>4
  <2>2. /\ Kernel(process_list', next', state', process_current', stack')
        /\ Polls(process_list', next', state', needspoll, poll_requested, stack', asked)
    BY <1>3, <2>1, StartKeeps
  <2>3. Queue'
    BY <1>1, <1>4 DEF Inv, Queue
  <2> QED
    BY <1>4, <2>2, <2>3 DEF Inv
<1>5. CASE /\ \E p \in Procs \union {Null} : ProcessPost(p)
           /\ UNCHANGED <<list, state, needspoll, poll_requested, process_current, stack,
                          asked>>
  <2>1. PICK p \in Refs : ProcessPost(p)
    BY <1>5 DEF Refs
  <2>2. Queue'
    BY <1>1, <1>5, <2>1, PostKeeps DEF Inv
  <2> QED
    BY <1>5, <2>2 DEF Inv, list
<1>6. CASE /\ \E p \in Procs : ProcessPoll(p)
           /\ UNCHANGED <<list, state, events, process_current, stack>>
  <2>1. PICK p \in Procs : ProcessPoll(p)
    BY <1>6
  <2>2. Polls(process_list, next, state, needspoll', poll_requested', s, asked')
    BY <1>3, <2>1, PollKeeps
  <2>3. Queue'
    BY <1>1, <1>6, <2>1, PollRequestKeeps DEF Inv
  <2>4. /\ process_list' = process_list /\ next' = next /\ state' = state
        /\ process_current' = process_current /\ stack' = s
    BY <1>2, <1>6 DEF list
  <2> QED
    BY <1>3, <2>2, <2>3, <2>4 DEF Inv
<1> QED
  BY <1>4, <1>5, <1>6 DEF Select

-----------------------------------------------------------------------------
(* The invariant, and what it says.                                        *)

LEMMA InitInv ==
  ASSUME Init
  PROVE  Inv
<1>1. /\ process_list = Null /\ next = [p \in Procs |-> Null]
      /\ state = [p \in Procs |-> "none"] /\ needspoll = [p \in Procs |-> FALSE]
      /\ poll_requested = FALSE /\ events = << >> /\ process_current = Null
      /\ stack = << >> /\ pc = "select" /\ asked = {}
  BY DEF Init
<1>2. stack \in Seq(AnyFrame) /\ Len(stack) = 0 /\ events \in Seq(Refs) /\ Len(events) = 0
  BY <1>1
<1>3. From(next, process_list) = {}
  BY <1>1, FromNull
<1>4. next \in Nexts /\ Null \in Refs
  BY <1>1 DEF Nexts, Refs
<1>5. StackOK(stack)
  BY <1>1, <1>2 DEF StackOK, Once
<1>6. ListOK(process_list, next, state, stack)
  BY <1>1, <1>2, <1>3, <1>4 DEF ListOK, Ends, Leaves
<1>7. Kernel(process_list, next, state, process_current, stack)
  BY <1>1, <1>2, <1>4, <1>5, <1>6 DEF Kernel, TopOK
<1>8. Polls(process_list, next, state, needspoll, poll_requested, stack, asked)
  BY <1>1 DEF Polls
<1>9. Queue
  <2>1. Len(events) <= NumEvents
    BY <1>2, NumEventsAssumption
  <2>2. poll_requested \in BOOLEAN /\ pc \in {"poll", "event", "select"}
    BY <1>1
  <2> QED
    BY <1>2, <2>1, <2>2 DEF Queue
<1> QED
  BY <1>7, <1>8, <1>9 DEF Inv

LEMMA NextInv ==
  ASSUME ~ExitActive, Inv, [Next]_vars
  PROVE  Inv'
<1>1. CASE ThreadStarts
  BY <1>1, ThreadStartsKeeps
<1>2. CASE ThreadExits
  BY <1>2, ThreadExitsKeeps
<1>3. CASE ThreadPosts
  BY <1>3, ThreadPostsKeeps
<1>4. CASE ThreadPostsSynch
  BY <1>4, ThreadPostsSynchKeeps
<1>5. CASE ThreadPolls
  BY <1>5, ThreadPollsKeeps
<1>6. CASE ThreadYields
  BY <1>6, ThreadYieldsKeeps
<1>7. CASE ThreadEnds
  BY <1>7, ThreadEndsKeeps
<1>8. CASE EndSynch
  BY <1>8, EndSynchKeeps
<1>9. CASE TellExit
  BY <1>9, TellExitKeeps
<1>10. CASE EndExit
  BY <1>10, EndExitKeeps
<1>11. CASE WalkPoll
  BY <1>11, WalkPollKeeps
<1>12. CASE WalkEvent
  BY <1>12, WalkEventKeeps
<1>13. CASE RunPolls
  BY <1>13, RunPollsKeeps
<1>14. CASE RunEvent
  BY <1>14, RunEventKeeps
<1>15. CASE Select
  BY <1>15, SelectKeeps
<1>16. CASE UNCHANGED vars
  <2>1. /\ process_list' = process_list /\ next' = next /\ state' = state
        /\ needspoll' = needspoll /\ poll_requested' = poll_requested /\ events' = events
        /\ process_current' = process_current /\ stack' = stack /\ pc' = pc
        /\ asked' = asked
    BY <1>16 DEF vars, list
  <2> QED
    BY <2>1 DEF Inv, Queue
<1> QED
  BY <1>1, <1>2, <1>3, <1>4, <1>5, <1>6, <1>7, <1>8, <1>9, <1>10, <1>11, <1>12, <1>13,
     <1>14, <1>15, <1>16 DEF Next

LEMMA Invariance ==
  ASSUME ~ExitActive
  PROVE  Spec => []Inv
<1>1. Init => Inv
  BY InitInv
<1>2. Inv /\ [Next]_vars => Inv'
  BY NextInv
<1> QED
  BY <1>1, <1>2, PTL DEF Spec

LEMMA ListImplied ==
  ASSUME Inv
  PROVE  ListTellsWhoRuns
<1>1. TypeOK
  BY DEF Inv, Kernel, StackOK, ListOK, Polls, Queue, TypeOK, Refs, Nexts
<1>2. Listed = From(next, process_list) /\ \A p : ReachedFrom(p) = From(next, p)
  BY ReachedIs DEF Listed
<1>3. ListOK(process_list, next, state, stack)
  BY DEF Inv, Kernel
<1>4. ASSUME NEW p \in Procs
      PROVE  Leaves(stack, p) <=> \E k \in Frames("exit") \union Frames("unlink") : stack[k].p = p
  BY DEF Leaves, Leaving, Frames
<1>5. \A p \in Procs : p \in Listed <=>
         \/ state[p] # "none"
         \/ \E k \in Frames("exit") \union Frames("unlink") : stack[k].p = p
  BY <1>2, <1>3, <1>4 DEF ListOK
<1>6. \A p \in Procs : p \in Listed => p \notin ReachedFrom(next[p])
  BY <1>2, <1>3 DEF ListOK, Ends
<1> QED
  BY <1>1, <1>5, <1>6 DEF ListTellsWhoRuns

LEMMA CurrentImplied ==
  ASSUME Inv
  PROVE  CurrentRuns
<1>1. Top("thread") => process_current = Caller
  BY DEF Inv, Kernel, TopOK, Top, TopFrame, Caller, Thread
<1>2. \A j, k \in Frames("thread") : stack[j].p = stack[k].p => j = k
  BY DEF Inv, Kernel, StackOK, Once, Alike, Thread, Frames
<1> QED
  BY <1>1, <1>2 DEF CurrentRuns

LEMMA WalksImplied ==
  ASSUME Inv
  PROVE  WalksMissNobody
<1> SUFFICES ASSUME NEW k \in Frames("exit") \union Frames("event"), NEW f, f = stack[k]
             PROVE  f.owed \subseteq ReachedFrom(IF f.fn = "event" /\ f.polled THEN f.q ELSE Step(f))
  BY DEF WalksMissNobody
<1>1. k \in 1 .. Len(stack) /\ Loop(f)
  BY DEF Frames, Loop
<1>2. f.owed \subseteq From(next, CursorOf(process_list, next, f))
  BY <1>1 DEF Inv, Kernel, FrameWalk
<1>3. CursorOf(process_list, next, f) = IF f.fn = "event" /\ f.polled THEN f.q ELSE Step(f)
  BY DEF CursorOf, StepOf, Step
<1> QED
  BY <1>2, <1>3, ReachedIs

LEMMA PollsImplied ==
  ASSUME Inv
  PROVE  NoPollLost
<1> SUFFICES ASSUME NEW p \in asked
             PROVE  /\ needspoll[p]
                    /\ poll_requested \/ \E k \in Frames("poll") : p \in ReachedFrom(Step(stack[k]))
  BY DEF NoPollLost
<1>1. needspoll[p] /\ Polled(process_list, next, poll_requested, stack, p)
  BY DEF Inv, Polls
<1>2. \A f : ReachedFrom(Step(f)) = From(next, StepOf(process_list, next, f))
  BY ReachedIs DEF Step, StepOf
<1> QED
  BY <1>1, <1>2 DEF Polled, Poll, Frames

-----------------------------------------------------------------------------

\* Processes start, exit and call each other in the middle of the walks over
\* process_list: the list always ends, and it holds the processes that run and those
\* whose exit is under way, no other.
THEOREM ListTellsWhoRunsAlways ==
  ASSUME ~ExitActive
  PROVE  Spec => []ListTellsWhoRuns
<1>1. Spec => []Inv
  BY Invariance
<1>2. Inv => ListTellsWhoRuns
  BY ListImplied
<1> QED
  BY <1>1, <1>2, PTL

\* No protothread is entered again while it runs, and process_current is the process
\* whose protothread runs, whoever it has called and whoever has exited meanwhile.
THEOREM CurrentRunsAlways ==
  ASSUME ~ExitActive
  PROVE  Spec => []CurrentRuns
<1>1. Spec => []Inv
  BY Invariance
<1>2. Inv => CurrentRuns
  BY CurrentImplied
<1> QED
  BY <1>1, <1>2, PTL

\* The loops of exit_process() and of a broadcast miss no process that ran when they
\* began, though the list changes under their cursors.
THEOREM WalksMissNobodyAlways ==
  ASSUME ~ExitActive
  PROVE  Spec => []WalksMissNobody
<1>1. Spec => []Inv
  BY Invariance
<1>2. Inv => WalksMissNobody
  BY WalksImplied
<1> QED
  BY <1>1, <1>2, PTL

\* The poll that a process has asked for by process_poll() has been requested of
\* process_run(), or do_poll() is still to come to it.
THEOREM NoPollLostAlways ==
  ASSUME ~ExitActive
  PROVE  Spec => []NoPollLost
<1>1. Spec => []Inv
  BY Invariance
<1>2. Inv => NoPollLost
  BY PollsImplied
<1> QED
  BY <1>1, <1>2, PTL
=============================================================================
