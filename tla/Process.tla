-------------------------------- MODULE Process --------------------------------
(***************************************************************************)
(* The process scheduler of the Contiki kernel, core/sys/process.c, under  *)
(* the main loop of platform/native/contiki-main.c: process_run(), then    *)
(* the select callbacks.                                                   *)
(*                                                                         *)
(* Everything runs on one thread, and everything is re-entrant: a process  *)
(* that is called may start, exit and call others before it returns, in    *)
(* the middle of a walk over process_list.  The call stack is therefore a  *)
(* variable, with the top last: a "thread" frame for each protothread that *)
(* is running, a "synch" frame for process_post_synch(), and a frame with  *)
(* a cursor for each loop over process_list.  What a protothread does      *)
(* between two calls of this module is left out.                           *)
(***************************************************************************)
EXTENDS Naturals, Sequences, FiniteSets

CONSTANTS
  Procs,        \* struct process
  Null,
  NumEvents,    \* PROCESS_CONF_NUMEVENTS
  MaxThreads,   \* bound: protothreads on the stack when one calls another
  MaxCalls,     \* bound: calls that a protothread makes before it returns
  ExitActive    \* do callers exit a process that is on the stack?

ASSUME NullAssumption == Null \notin Procs
ASSUME NumEventsAssumption == NumEvents \in Nat \ {0}
ASSUME BoundsAssumption == MaxThreads \in Nat /\ MaxCalls \in Nat

VARIABLES
  process_list, \* the first process of the list
  next,         \* p->next, which stays when p is unlinked
  state,        \* p->state
  needspoll,    \* p->needspoll
  poll_requested,
  events,       \* events[fevent ..]: the receiver of each, Null for all
  process_current,
  stack,
  pc,           \* what the main loop does when the stack is empty
  asked         \* history: the processes that wait for PROCESS_EVENT_POLL

list == <<process_list, next>>
vars == <<list, state, needspoll, poll_requested, events, process_current,
          stack, pc, asked>>

-----------------------------------------------------------------------------
(* The list.                                                               *)

\* What a walk reaches that has come to p: whatever is in every set that has p and
\* that no next leads out of.
ReachedFrom(p) ==
  {r \in Procs :
     \A S \in SUBSET Procs :
       p \in S \union {Null} /\ (\A q \in S : next[q] \in S \union {Null}) => r \in S}

Listed == ReachedFrom(process_list)

Unlink_Cleared(p) ==
  IF p = process_list
  THEN process_list' = next[p] /\ next' = [next EXCEPT ![p] = Null]
  ELSE /\ next' = [q \in Procs |-> IF q = p THEN Null
                                  ELSE IF q \in Listed /\ next[q] = p THEN next[p]
                                  ELSE next[q]]
       /\ UNCHANGED process_list
Unlink(p) ==
  IF p = process_list
  THEN process_list' = next[p] /\ UNCHANGED next
  ELSE /\ next' = [q \in Procs |-> IF q \in Listed /\ next[q] = p THEN next[p]
                                                                ELSE next[q]]
       /\ UNCHANGED process_list

-----------------------------------------------------------------------------
(* Frames.  A loop's q is the process it has come to, Null before the      *)
(* first; owed is history: those it has still to call.                     *)

ThreadFrame(p, ev, how) ==
  [fn |-> "thread", p |-> p, ev |-> ev, how |-> how, calls |-> 0]
SynchFrame == [fn |-> "synch", old |-> process_current]
ExitFrame(p, from, owed) ==
  [fn |-> "exit", p |-> p, from |-> from, old |-> process_current, q |-> Null,
   owed |-> owed]
UnlinkFrame(p, old) == [fn |-> "unlink", p |-> p, old |-> old]
EventFrame(owed) == [fn |-> "event", q |-> Null, polled |-> FALSE, owed |-> owed]
PollFrame == [fn |-> "poll", q |-> Null]

Frames(fn) == {k \in 1 .. Len(stack) : stack[k].fn = fn}
TopFrame == stack[Len(stack)]
Top(fn) == stack # << >> /\ TopFrame.fn = fn
Under == SubSeq(stack, 1, Len(stack) - 1)

\* The stack when the function on top has come to another frame.
Going(frame) == [stack EXCEPT ![Len(stack)] = frame]

\* Where a loop goes next: p = p->next is read when the call has returned.
Step(frame) == IF frame.q = Null THEN process_list ELSE next[frame.q]

OnStack(p) ==
  \E k \in 1 .. Len(stack) :
    stack[k].fn \in {"thread", "exit", "unlink"} /\ stack[k].p = p

\* No loop has to call a process that has exited, nor if it starts again.
Forget(stk, p) ==
  [k \in 1 .. Len(stk) |->
     IF stk[k].fn \in {"exit", "event"} THEN [stk[k] EXCEPT !.owed = @ \ {p}]
                                        ELSE stk[k]]

-----------------------------------------------------------------------------
(* The functions of the kernel, called with stk on the stack.              *)

\* call_process(): a process that is in the middle of a call is not called.
CallProcess(p, ev, st, stk) ==
  IF p # Null /\ st[p] = "running"
  THEN /\ state' = [st EXCEPT ![p] = "called"]
       /\ process_current' = p
       /\ stack' = Append(stk, ThreadFrame(p, ev, "call"))
  ELSE /\ state' = st
       /\ stack' = stk
       /\ UNCHANGED process_current

\* exit_process() up to its loop.
ExitProcess(p, from, stk) ==
  IF p \notin Listed THEN stack' = stk /\ UNCHANGED <<list, state, asked>>
  ELSE IF state[p] # "none"
  THEN /\ state' = [state EXCEPT ![p] = "none"]
       /\ stack' = Append(Forget(stk, p),
                         ExitFrame(p, from, {q \in Listed \ {p} : state[q] = "running"}))
       /\ asked' = asked \ {p}
       /\ UNCHANGED list
  ELSE Unlink(p) /\ stack' = stk /\ UNCHANGED <<state, asked>>

\* process_start(), which calls process_post_synch().
ProcessStart_Unchecked(p, stk) ==
  /\ process_list' = p
  /\ next' = [next EXCEPT ![p] = process_list]
  /\ CallProcess(p, "INIT", [state EXCEPT ![p] = "running"], Append(stk, SynchFrame))
ProcessStart(p, stk) ==
  IF p \in Listed THEN stack' = stk /\ UNCHANGED <<list, state, process_current>>
  ELSE /\ process_list' = p
       /\ next' = [next EXCEPT ![p] = process_list]
       /\ CallProcess(p, "INIT", [state EXCEPT ![p] = "running"],
                      Append(stk, SynchFrame))

\* process_post() to p, or to all; a full queue refuses.
ProcessPost(p) ==
  events' = IF Len(events) = NumEvents THEN events ELSE Append(events, p)

\* process_poll()
ProcessPoll_OnlyOnce(p) ==
  IF state[p] # "none" /\ ~needspoll[p]
  THEN /\ needspoll' = [needspoll EXCEPT ![p] = TRUE]
       /\ poll_requested' = TRUE
       /\ asked' = asked \union {p}
  ELSE /\ asked' = IF state[p] # "none" THEN asked \union {p} ELSE asked
       /\ UNCHANGED <<needspoll, poll_requested>>
ProcessPoll(p) ==
  IF state[p] # "none"
  THEN /\ needspoll' = [needspoll EXCEPT ![p] = TRUE]
       /\ poll_requested' = TRUE
       /\ asked' = asked \union {p}
  ELSE UNCHANGED <<needspoll, poll_requested, asked>>

-----------------------------------------------------------------------------

Init ==
  /\ process_list = Null
  /\ next = [p \in Procs |-> Null]
  /\ state = [p \in Procs |-> "none"]
  /\ needspoll = [p \in Procs |-> FALSE]
  /\ poll_requested = FALSE
  /\ events = << >>
  /\ process_current = Null
  /\ stack = << >>
  /\ pc = "select"
  /\ asked = {}

(* A protothread runs.                                                     *)

Caller == TopFrame.p

\* The stack of a protothread that makes a call.
Calling == Going([TopFrame EXCEPT !.calls = @ + 1])
MayCall == Top("thread") /\ TopFrame.calls < MaxCalls
MayNest == MayCall /\ Cardinality(Frames("thread")) < MaxThreads

ThreadStarts ==
  /\ MayNest
  /\ \E p \in Procs : ProcessStart(p, Calling)
  /\ UNCHANGED <<needspoll, poll_requested, events, pc, asked>>

ThreadExits ==
  /\ MayNest
  /\ \E p \in Procs : /\ ExitActive \/ ~OnStack(p)
                      /\ ExitProcess(p, process_current, Calling)
  /\ UNCHANGED <<needspoll, poll_requested, events, process_current, pc>>

ThreadPosts ==
  /\ MayCall
  /\ \E p \in Procs \union {Null} : ProcessPost(p)
  /\ stack' = Calling
  /\ UNCHANGED <<list, state, needspoll, poll_requested, process_current, pc, asked>>

ThreadPostsSynch ==
  /\ MayNest
  /\ \E p \in Procs : CallProcess(p, "MSG", state, Append(Calling, SynchFrame))
  /\ UNCHANGED <<list, needspoll, poll_requested, events, pc, asked>>

ThreadPolls ==
  /\ MayCall
  /\ \E p \in Procs : ProcessPoll(p)
  /\ stack' = Calling
  /\ UNCHANGED <<list, state, events, process_current, pc>>

\* It waits or yields: call_process() has it running again.
ThreadYields ==
  /\ Top("thread")
  /\ state' = IF TopFrame.how = "call" THEN [state EXCEPT ![Caller] = "running"]
                                          ELSE state
  /\ stack' = Under
  /\ UNCHANGED <<list, needspoll, poll_requested, events, process_current, pc, asked>>

\* It exits or ends: call_process() exits it; exit_process() does not care.
ThreadEnds ==
  /\ Top("thread") /\ TopFrame.how = "call"
  /\ ExitProcess(Caller, Caller, Under)
  /\ UNCHANGED <<needspoll, poll_requested, events, process_current, pc>>

-----------------------------------------------------------------------------
(* The kernel goes on when what it called has returned.                    *)

EndSynch ==
  /\ Top("synch")
  /\ process_current' = TopFrame.old
  /\ stack' = Under
  /\ UNCHANGED <<list, state, needspoll, poll_requested, events, pc, asked>>

\* Loop frame f has come to q.
At(f, q) == IF f.fn = "poll" THEN [f EXCEPT !.q = q]
                             ELSE [f EXCEPT !.q = q, !.owed = @ \ {q}]

\* exit_process(): the others get PROCESS_EVENT_EXITED, then p, unless it is
\* p that exits, gets PROCESS_EVENT_EXIT, whatever it is in the middle of.
TellExit ==
  /\ Top("exit")
  /\ LET f == TopFrame
         q == Step(f)
     IN  IF q # Null
         THEN /\ IF q # f.p THEN CallProcess(q, "EXITED", state, Going(At(f, q)))
                 ELSE /\ stack' = Going(At(f, q))
                      /\ UNCHANGED <<state, process_current>>
         ELSE /\ IF f.p # f.from
                 THEN /\ stack' = Append(Going(UnlinkFrame(f.p, f.old)),
                                         ThreadFrame(f.p, "EXIT", "exit"))
                      /\ process_current' = f.p
                 ELSE stack' = Going(UnlinkFrame(f.p, f.old)) /\ UNCHANGED process_current
              /\ UNCHANGED state
  /\ UNCHANGED <<list, needspoll, poll_requested, events, pc, asked>>

\* The end of exit_process().
Restored_Kept(f) == process_current
Restored(f) == f.old
EndExit ==
  /\ Top("unlink")
  /\ IF TopFrame.p \in Listed THEN Unlink(TopFrame.p) ELSE UNCHANGED list
  /\ process_current' = Restored(TopFrame)
  /\ stack' = Under
  /\ UNCHANGED <<state, needspoll, poll_requested, events, pc, asked>>

\* do_poll(), one process.
StillAsked(q) == asked \ {q}
WalkPoll ==
  /\ Top("poll")
  /\ LET f == TopFrame
         q == Step(f)
     IN  IF q = Null
         THEN stack' = Under /\ UNCHANGED <<state, needspoll, process_current, asked>>
         ELSE IF needspoll[q]
         THEN /\ needspoll' = [needspoll EXCEPT ![q] = FALSE]
              /\ asked' = StillAsked(q)
              /\ CallProcess(q, "POLL", [state EXCEPT ![q] = "running"],
                             Going(At(f, q)))
         ELSE /\ stack' = Going(At(f, q))
              /\ UNCHANGED <<state, needspoll, process_current, asked>>
  /\ UNCHANGED <<list, poll_requested, events, pc>>

\* do_event(), one process of a broadcast: polls come first, but only once.
WalkEvent ==
  /\ Top("event")
  /\ LET f == TopFrame
         q == IF f.polled THEN f.q ELSE Step(f)
     IN  IF q = Null
         THEN stack' = Under /\ UNCHANGED <<state, poll_requested, process_current>>
         ELSE IF poll_requested /\ ~f.polled
         THEN /\ poll_requested' = FALSE
              /\ stack' = Append(Going([f EXCEPT !.q = q, !.polled = TRUE]), PollFrame)
              /\ UNCHANGED <<state, process_current>>
         ELSE /\ CallProcess(q, "MSG", state, Going([At(f, q) EXCEPT !.polled = FALSE]))
              /\ UNCHANGED poll_requested
  /\ UNCHANGED <<list, needspoll, events, pc, asked>>

-----------------------------------------------------------------------------
(* The main loop.                                                          *)

Idle(at, then) == stack = << >> /\ pc = at /\ pc' = then

\* process_run(): do_poll() if one was requested,
RunPolls ==
  /\ Idle("poll", "event")
  /\ stack' = IF poll_requested THEN <<PollFrame>> ELSE << >>
  /\ poll_requested' = FALSE
  /\ UNCHANGED <<list, state, needspoll, events, process_current, asked>>

\* then do_event().
RunEvent ==
  /\ Idle("event", "select")
  /\ IF events = << >>
     THEN UNCHANGED <<state, events, process_current, stack>>
     ELSE /\ events' = Tail(events)
          /\ IF Head(events) = Null
             THEN /\ stack' = <<EventFrame({q \in Listed : state[q] # "none"})>>
                  /\ UNCHANGED <<state, process_current>>
             ELSE CallProcess(Head(events), "MSG", state, << >>)
  /\ UNCHANGED <<list, needspoll, poll_requested, asked>>

\* The select callbacks, and before the loop the start of the processes.
Select ==
  /\ Idle("select", "poll")
  /\ \/ /\ \E p \in Procs : ProcessStart(p, << >>)
        /\ UNCHANGED <<needspoll, poll_requested, events, asked>>
     \/ /\ \E p \in Procs \union {Null} : ProcessPost(p)
        /\ UNCHANGED <<list, state, needspoll, poll_requested, process_current, stack,
                       asked>>
     \/ /\ \E p \in Procs : ProcessPoll(p)
        /\ UNCHANGED <<list, state, events, process_current, stack>>

Next ==
  \/ ThreadStarts \/ ThreadExits \/ ThreadPosts \/ ThreadPostsSynch \/ ThreadPolls
  \/ ThreadYields \/ ThreadEnds
  \/ EndSynch \/ TellExit \/ EndExit \/ WalkPoll \/ WalkEvent
  \/ RunPolls \/ RunEvent \/ Select

Spec == Init /\ [][Next]_vars

-----------------------------------------------------------------------------

ThreadFrames == [fn : {"thread"}, p : Procs, ev : {"INIT", "MSG", "POLL", "EXITED", "EXIT"},
                 how : {"call", "exit"}, calls : 0 .. MaxCalls]
SynchFrames == [fn : {"synch"}, old : Procs \union {Null}]
ExitFrames == [fn : {"exit"}, p : Procs, from : Procs \union {Null},
               old : Procs \union {Null}, q : Procs \union {Null}, owed : SUBSET Procs]
UnlinkFrames == [fn : {"unlink"}, p : Procs, old : Procs \union {Null}]
EventFrames == [fn : {"event"}, q : Procs \union {Null}, polled : BOOLEAN,
                owed : SUBSET Procs]
PollFrames == [fn : {"poll"}, q : Procs \union {Null}]
AnyFrame == ThreadFrames \union SynchFrames \union ExitFrames \union UnlinkFrames
              \union EventFrames \union PollFrames

TypeOK ==
  /\ process_list \in Procs \union {Null}
  /\ next \in [Procs -> Procs \union {Null}]
  /\ state \in [Procs -> {"none", "running", "called"}]
  /\ needspoll \in [Procs -> BOOLEAN]
  /\ poll_requested \in BOOLEAN
  /\ events \in Seq(Procs \union {Null}) /\ Len(events) <= NumEvents
  /\ process_current \in Procs \union {Null}
  /\ stack \in Seq(AnyFrame)
  /\ pc \in {"poll", "event", "select"}
  /\ asked \subseteq Procs

\* The list ends, and it holds the processes that run and those whose exit is
\* under way, no other: no process runs off the list, where neither a poll nor
\* a broadcast would find it, and no walk is endless.
ListTellsWhoRuns ==
  /\ TypeOK
  /\ \A p \in Procs :
    /\ p \in Listed <=>
         \/ state[p] # "none"
         \/ \E k \in Frames("exit") \union Frames("unlink") : stack[k].p = p
    /\ p \in Listed => p \notin ReachedFrom(next[p])

\* A protothread has one place to go on from: it is not entered again while it
\* is running; and PROCESS_CURRENT(), by which timers and connections are given to
\* their process, is the process that is running, whatever it has called since.
CurrentRuns ==
  /\ Top("thread") => process_current = Caller
  /\ \A j, k \in Frames("thread") : stack[j].p = stack[k].p => j = k

\* The loops over process_list, which read p->next after p has been called,
\* miss nobody: whoever ran when a loop began, and has not exited since, is
\* called yet or has been.
WalksMissNobody ==
  \A k \in Frames("exit") \union Frames("event") :
    LET f == stack[k]
    IN  f.owed \subseteq ReachedFrom(IF f.fn = "event" /\ f.polled THEN f.q ELSE Step(f))

\* A process that has asked to be polled is polled: a poll has been requested
\* or do_poll() has still to come to it.
NoPollLost ==
  \A p \in asked :
    /\ needspoll[p]
    /\ poll_requested \/ \E k \in Frames("poll") : p \in ReachedFrom(Step(stack[k]))
=============================================================================
