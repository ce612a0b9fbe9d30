-------------------------------- MODULE Timers --------------------------------
(***************************************************************************)
(* Callback timers of the Contiki kernel on the native platform: ctimer.c  *)
(* over etimer.c over the event queue of process.c, driven by the main     *)
(* loop of platform/native/contiki-main.c, one round of which is           *)
(* process_run() (polled processes, then one event), the select callbacks  *)
(* and etimer_request_poll().  CSMA's transmit timers and the timeouts of  *)
(* native-rdc.c are such timers.                                           *)
(*                                                                         *)
(* Time is kept as what is left of each timer's interval, so it needs no   *)
(* bound.  Other processes appear only through what they do to timers and  *)
(* through the events that wait for them in the queue.                     *)
(***************************************************************************)
EXTENDS Lists, Integers, FiniteSets

CONSTANTS
  Timers,       \* struct ctimer
  Intervals,    \* intervals they are set to, in clock ticks
  MaxLate,      \* bound: lateness is not counted further than this
  NumEvents,    \* PROCESS_CONF_NUMEVENTS
  MaxOthers,    \* bound: events of other processes in the queue
  Other         \* the data of such an event

ASSUME IntervalsAssumption == Intervals \subseteq Nat
ASSUME NumEventsAssumption == NumEvents \in Nat \ {0}
ASSUME OtherAssumption == Other \notin Timers

VARIABLES
  left,         \* timer.start + timer.interval - clock_time()
  interval,     \* timer.interval
  owned,        \* etimer.p # PROCESS_NONE
  timerlist,    \* etimer.c
  ctimerList,   \* ctimer_list
  events,       \* events[fevent ..]: the data of each
  poll,         \* etimer_process.needspoll
  pc            \* what the main loop does next

vars == <<left, interval, owned, timerlist, ctimerList, events, poll, pc>>

Init ==
  /\ left = [c \in Timers |-> 0]
  /\ interval = [c \in Timers |-> 0]
  /\ owned = [c \in Timers |-> FALSE]
  /\ timerlist = << >>
  /\ ctimerList = << >>
  /\ events = << >>
  /\ poll = FALSE
  /\ pc = "poll"

-----------------------------------------------------------------------------
(* What a function that runs can do; cl is ctimer_list when it is called.  *)

\* add_timer()
AddTimer_AlwaysPushed(c) == <<c>> \o timerlist
AddTimer(c) ==
  IF owned[c] /\ OnList(c, timerlist) THEN timerlist ELSE <<c>> \o timerlist

Start(c, remaining, cl) ==
  /\ left' = [left EXCEPT ![c] = remaining]
  /\ timerlist' = AddTimer(c)
  /\ owned' = [owned EXCEPT ![c] = TRUE]
  /\ ctimerList' = ListAdd(cl, c)

CtimerSet(c, t, cl) == Start(c, t, cl) /\ interval' = [interval EXCEPT ![c] = t]

CtimerRestart(c, cl) == Start(c, interval[c], cl) /\ UNCHANGED interval

\* "Must not be executed before timer expired."
CtimerReset(c, cl) ==
  /\ left[c] <= 0
  /\ Start(c, left[c] + interval[c], cl)
  /\ UNCHANGED interval

CtimerStop(c, cl) ==
  /\ timerlist' = RemoveFrom(timerlist, c)
  /\ owned' = [owned EXCEPT ![c] = FALSE]
  /\ ctimerList' = RemoveFrom(cl, c)
  /\ UNCHANGED <<left, interval>>

NoTimerCall(cl) ==
  ctimerList' = cl /\ UNCHANGED <<left, interval, owned, timerlist>>

\* process_post() of an event that is not for ctimer_process.
PostOther(ev) ==
  /\ Cardinality({k \in 1 .. Len(ev) : ev[k] = Other}) < MaxOthers
  /\ Len(ev) < NumEvents
  /\ events' = Append(ev, Other)

\* What is called does one thing or nothing; add_timer() polls etimer_process.
Handler(cl, ev) ==
  \/ /\ \E c \in Timers : \/ \E t \in Intervals : CtimerSet(c, t, cl)
                           \/ CtimerRestart(c, cl)
                           \/ CtimerReset(c, cl)
     /\ poll' = TRUE
     /\ events' = ev
  \/ /\ (\E c \in Timers : CtimerStop(c, cl)) \/ NoTimerCall(cl)
     /\ events' = ev
     /\ UNCHANGED poll
  \/ NoTimerCall(cl) /\ PostOther(ev) /\ UNCHANGED poll

-----------------------------------------------------------------------------

\* do_poll(), a process other than etimer_process.
PollOther ==
  /\ pc \in {"poll", "event"}
  /\ Handler(ctimerList, events)
  /\ UNCHANGED pc

\* The timers for which timer_expired() holds.
Expired_TickEarly == Kept(timerlist, {c \in Timers : left[c] <= 1})
Expired_OnTheTick == Kept(timerlist, {c \in Timers : left[c] = 0})
Expired == Kept(timerlist, {c \in Timers : left[c] <= 0})

\* How many of the expired timers process_post() takes.
Posted ==
  IF Len(Expired) <= NumEvents - Len(events) THEN Len(Expired)
                                             ELSE NumEvents - Len(events)

\* What stays linked when the timers in sent have been posted.
Unposted_Dropped(sent) == Kept(timerlist, {c \in Timers : left[c] > 0})
Unposted(sent) == Kept(timerlist, Timers \ Members(sent))

\* etimer_process is polled: expired timers go from the list to the event
\* queue, as many as it takes; for the rest it has itself polled again.
PollEtimer ==
  /\ pc = "poll"
  /\ IF poll
     THEN LET sent == SubSeq(Expired, 1, Posted)
          IN  /\ events' = events \o sent
              /\ timerlist' = Unposted(sent)
              /\ owned' = [c \in Timers |-> owned[c] /\ ~OnList(c, sent)]
              /\ poll' = (Posted < Len(Expired))
     ELSE UNCHANGED <<events, timerlist, owned, poll>>
  /\ pc' = "event"
  /\ UNCHANGED <<left, interval, ctimerList>>

\* do_event(): ctimer_process looks the timer of the event up in its list and
\* calls its function; an event of another process does as it likes.
DoEvent ==
  /\ pc = "event"
  /\ \/ /\ events = << >>
        /\ NoTimerCall(ctimerList)
        /\ UNCHANGED <<events, poll>>
     \/ /\ events # << >>
        /\ Head(events) = Other \/ OnList(Head(events), ctimerList)
        /\ Handler(RemoveFrom(ctimerList, Head(events)), Tail(events))
     \/ /\ events # << >>
        /\ Head(events) # Other /\ ~OnList(Head(events), ctimerList)
        /\ NoTimerCall(ctimerList)
        /\ events' = Tail(events)
        /\ UNCHANGED poll
  /\ pc' = "select"

\* The select callbacks (the serial lines, the tap device), then
\* etimer_request_poll().
Select ==
  /\ pc = "select"
  /\ \/ \E c \in Timers :
          \/ \E t \in Intervals : CtimerSet(c, t, ctimerList)
          \/ CtimerStop(c, ctimerList)
     \/ NoTimerCall(ctimerList)
  /\ poll' = TRUE
  /\ pc' = "poll"
  /\ UNCHANGED events

Tick ==
  /\ left' = [c \in Timers |-> IF left[c] > -MaxLate THEN left[c] - 1 ELSE left[c]]
  /\ left' # left
  /\ UNCHANGED <<interval, owned, timerlist, ctimerList, events, poll, pc>>

Next == PollOther \/ PollEtimer \/ DoEvent \/ Select \/ Tick

Spec == Init /\ [][Next]_vars

\* The main loop goes round and round, and time passes.
FairSpec ==
  /\ Spec
  /\ WF_vars(PollEtimer) /\ WF_vars(DoEvent) /\ WF_vars(Select)
  /\ WF_vars(Tick)

-----------------------------------------------------------------------------

TypeOK ==
  /\ left \in [Timers -> Int]
  /\ interval \in [Timers -> Intervals \union {0}]
  /\ owned \in [Timers -> BOOLEAN]
  /\ timerlist \in Seq(Timers)
  /\ ctimerList \in Seq(Timers)
  /\ events \in Seq(Timers \union {Other}) /\ Len(events) <= NumEvents
  /\ poll \in BOOLEAN
  /\ pc \in {"poll", "event", "select"}

\* The intrusive lists stay lists: no timer is linked twice (a cycle would
\* hang every later walk), and etimer.p tells whether a timer is linked, which
\* is what add_timer() and etimer_expired() go by.
ListsSound ==
  /\ TypeOK
  /\ NoRepetition(timerlist) /\ NoRepetition(ctimerList)
  /\ \A c \in Timers : owned[c] <=> OnList(c, timerlist)

\* No timer is forgotten: whoever waits for a callback has its event timer
\* running, or its event is in the queue.
ArmedIsPending ==
  \A c \in Timers : OnList(c, ctimerList) =>
    OnList(c, timerlist) \/ OnList(c, events)

\* The next event is for c's function.
CallsNext(c) ==
  pc = "event" /\ events # << >> /\ Head(events) = c /\ OnList(c, ctimerList)

\* "When the callback timer expires, the callback function f will be called"
\* (core/sys/ctimer.h): the function that is called next is not called before its
\* interval has passed, unless the timer was set again while the event of its
\* last interval was in the queue, which shows in its being linked still.
NeverEarly == \A c \in Timers : CallsNext(c) => left[c] <= 0 \/ OnList(c, timerlist)

\* process_post() is about to refuse the event of a timer.
Refused == pc = "poll" /\ poll /\ Posted < Len(Expired)

\* A timer that is set is called back, or stopped, unless it is put off again and
\* again, or the event queue is full again and again when timers expire: other
\* timers and other events alone do not starve it.
EveryTimerFires ==
  \A c \in Timers :
    \/ []<><<left'[c] > left[c]>>_vars
    \/ []<>Refused
    \/ OnList(c, ctimerList) ~> CallsNext(c) \/ ~OnList(c, ctimerList)
=============================================================================
