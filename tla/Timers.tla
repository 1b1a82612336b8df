------------------------------- MODULE Timers -------------------------------
(***************************************************************************)
(* The kernel's timers (system/timers.c): callback timers that count down  *)
(* with the interrupts of one active system timer.                         *)
(*                                                                         *)
(* GlbTimers and GlbSystemTimers are lists of libds, sequences by module   *)
(* List.  The kernel has one CPU, and TimersInterrupt is the only code     *)
(* that may come between the steps of a call: of interest is only          *)
(* TimersDestroyTimer, which has looked its timer up before it removes it. *)
(* since is the only variable that is not in the code.                     *)
(***************************************************************************)
EXTENDS Integers, FiniteSets, SequencesExt

CONSTANTS
    NSEC_PER_MSEC,
    WORD,               \* LOWORD(s) is s % WORD
    InterruptTable,     \* the entries of the table: [id, fast] or None
    None,
    Sources, TickRates, \* what TimersRegister is called with
    Timeouts,           \* what TimersCreateTimer is called with, in ms
    MaxTimers,          \* bound: timers created
    MaxSystemTimers,    \* bound: system timers registered
    MaxSince            \* bound: since stops counting here

ASSUME TimerConstants ==
    /\ NSEC_PER_MSEC \in Nat \ {0} /\ WORD \in Nat \ {0}
    /\ Sources \subseteq Nat /\ TickRates \subseteq Nat \ {0} /\ Timeouts \subseteq Nat
    /\ TickRates # {} /\ IsFiniteSet(TickRates)
    /\ DOMAIN InterruptTable = 0..WORD-1
    /\ None \notin [Source: Sources, Tick: TickRates]
    /\ MaxTimers \in Nat /\ MaxSystemTimers \in Nat /\ MaxSince \in Nat
    /\ \A ms \in Timeouts : ms <= MaxSince

VARIABLES
    GlbTimers,          \* [id, periodic, PeriodicMs, MsLeft]
    GlbTimerIds,        \* the id of the next timer
    GlbSystemTimers,    \* [Source, Tick]
    GlbActiveSystemTimer, \* the active one of them, or None
    destroying,         \* the id TimersDestroyTimer has found, or None
    stopped,            \* the kernel loops for ever in InterruptGet, or has
                        \* freed a timer twice
    since               \* id -> the ms the active timer has ticked since the
                        \* timer was created or last restarted

vars == <<GlbTimers, GlbTimerIds, GlbSystemTimers, GlbActiveSystemTimer,
          destroying, stopped, since>>

First(S) == {i \in S : \A j \in S : i <= j}
Abs(n) == IF n < 0 THEN -n ELSE n
AtMost(n, m) == IF n <= m THEN n ELSE m
Ids == {GlbTimers[i].id : i \in DOMAIN GlbTimers}

---------------------------------------------------------------------------
TimersInitialize ==
    /\ GlbTimers = <<>> /\ GlbTimerIds = 0
    /\ GlbSystemTimers = <<>> /\ GlbActiveSystemTimer = None
    /\ destroying = None /\ stopped = FALSE /\ since = <<>>

TimersCreateTimer(periodic, ms) ==
    /\ destroying = None /\ GlbTimerIds < MaxTimers
    /\ GlbTimers' = Append(GlbTimers, [id |-> GlbTimerIds, periodic |-> periodic,
                                       PeriodicMs |-> ms, MsLeft |-> ms])
    /\ GlbTimerIds' = GlbTimerIds + 1
    /\ since' = [t \in Ids \cup {GlbTimerIds} |-> IF t \in Ids THEN since[t] ELSE 0]
    /\ UNCHANGED <<GlbSystemTimers, GlbActiveSystemTimer, destroying, stopped>>

(* TimersDestroyTimer looks the timer up.  If there is none, it returns.     *)
DestroyBegins(t) ==
    /\ destroying = None /\ t \in Ids
    /\ destroying' = t
    /\ UNCHANGED <<GlbTimers, GlbTimerIds, GlbSystemTimers, GlbActiveSystemTimer,
                   stopped, since>>

(* It removes the timer by its key, and frees the timer it has looked up     *)
(* even if TimersTick has removed and freed it since.                        *)
DestroyEnds ==
    /\ destroying # None
    /\ \/ \E i \in DOMAIN GlbTimers :
             GlbTimers[i].id = destroying /\ GlbTimers' = RemoveAt(GlbTimers, i)
       \/ destroying \notin Ids /\ GlbTimers' = GlbTimers
    /\ stopped' = (destroying \notin Ids)
    /\ since' = [t \in Ids \ {destroying} |-> since[t]]
    /\ destroying' = None
    /\ UNCHANGED <<GlbTimerIds, GlbSystemTimers, GlbActiveSystemTimer>>

---------------------------------------------------------------------------
(* InterruptGet.  Its loop does not advance: it ends at once or never.       *)
Descriptor(source) == InterruptTable[source % WORD]
InterruptGetReturns(source) == Descriptor(source) = None \/ Descriptor(source).id = source
InterruptIsFast(source) == Descriptor(source) # None /\ Descriptor(source).fast

(* A variant: of two sources as good as each other the later one wins.       *)
CloserOrSame(tick, than) == Abs(1000 - tick) <= Abs(1000 - than)

Closer(tick, than) == Abs(1000 - tick) < Abs(1000 - than)

TimersRegister(source, tick) ==
    /\ destroying = None /\ Len(GlbSystemTimers) < MaxSystemTimers
    /\ \/ /\ ~InterruptGetReturns(source)
          /\ stopped' = TRUE
          /\ UNCHANGED <<GlbSystemTimers, GlbActiveSystemTimer>>
       \/ /\ InterruptGetReturns(source) /\ InterruptIsFast(source)
          /\ \E s \in {[Source |-> source, Tick |-> tick]} :
             /\ GlbSystemTimers' = Append(GlbSystemTimers, s)
             /\ GlbActiveSystemTimer' =
                  IF GlbActiveSystemTimer = None \/ Closer(tick, GlbActiveSystemTimer.Tick)
                  THEN s ELSE GlbActiveSystemTimer
          /\ UNCHANGED stopped
    /\ UNCHANGED <<GlbTimers, GlbTimerIds, destroying, since>>

---------------------------------------------------------------------------
MilliTicks(tick) ==
    tick \div NSEC_PER_MSEC + (IF tick % NSEC_PER_MSEC > 0 THEN 1 ELSE 0)

(* A variant: a timer with 1 ms left counts as expired.                      *)
ExpiresEarly(t, ms) == t.MsLeft - ms <= 1

Expires(t, ms) == t.MsLeft - ms <= 0

Ticked(t, ms) ==
    [t EXCEPT !.MsLeft = IF t.periodic /\ Expires(t, ms) THEN t.PeriodicMs ELSE @ - ms]

(* ListRemoveByNode clears the link of the node it removes, so the loop ends *)
(* at the first single-shot timer that expires.                              *)
LastTicked(ms) ==
    First({i \in DOMAIN GlbTimers : ~GlbTimers[i].periodic /\ Expires(GlbTimers[i], ms)})

(* Variants: only the first timer is ticked, as in a list of differences;    *)
(* the loop leaves out the last one.                                         *)
CountedFirst(last, ms) ==
    [i \in DOMAIN GlbTimers |-> IF i = 1 THEN Ticked(GlbTimers[i], ms) ELSE GlbTimers[i]]
CountedButLast(last, ms) ==
    [i \in DOMAIN GlbTimers |-> IF i < last THEN Ticked(GlbTimers[i], ms) ELSE GlbTimers[i]]

Counted(last, ms) ==
    [i \in DOMAIN GlbTimers |-> IF i <= last THEN Ticked(GlbTimers[i], ms) ELSE GlbTimers[i]]

TimersTick(ms) ==
    \/ \E i \in LastTicked(ms) : GlbTimers' = RemoveAt(Counted(i, ms), i)
    \/ LastTicked(ms) = {} /\ GlbTimers' = Counted(Len(GlbTimers), ms)

(* A timer is restarted when the loop reaches it and it expires. *)
Restarted(i, ms) ==
    /\ GlbTimers[i].periodic /\ Expires(GlbTimers[i], ms)
    /\ \A k \in LastTicked(ms) : i < k

(* TimersInterrupt: an interrupt of any other source changes nothing.        *)
TimersInterrupt(source) ==
    /\ GlbActiveSystemTimer # None /\ GlbActiveSystemTimer.Source = source
    /\ \E ms \in {MilliTicks(GlbActiveSystemTimer.Tick)} :
       /\ TimersTick(ms)
       /\ since' = [t \in {GlbTimers'[i].id : i \in DOMAIN GlbTimers'} |->
                      IF \E i \in DOMAIN GlbTimers : GlbTimers[i].id = t /\ Restarted(i, ms)
                      THEN 0 ELSE AtMost(since[t] + ms, MaxSince)]
    /\ UNCHANGED <<GlbTimerIds, GlbSystemTimers, GlbActiveSystemTimer, destroying, stopped>>

Tick == ~stopped /\ \E s \in Sources : TimersInterrupt(s)

Next ==
    \/ /\ ~stopped
       /\ \/ \E p \in BOOLEAN, ms \in Timeouts : TimersCreateTimer(p, ms)
          \/ \E t \in Ids : DestroyBegins(t)
          \/ DestroyEnds
          \/ \E s \in Sources, tick \in TickRates : TimersRegister(s, tick)
    \/ Tick

(* The active system timer keeps ticking, and a call runs to its end.        *)
Spec ==
    /\ TimersInitialize /\ [][Next]_vars
    /\ WF_vars(Tick) /\ WF_vars(~stopped /\ DestroyEnds)

---------------------------------------------------------------------------
(* Properties                                                              *)

TimerType == [id: Nat, periodic: BOOLEAN, PeriodicMs: Timeouts, MsLeft: Int]
SystemTimerType == [Source: Sources, Tick: TickRates]

(* A timer that waits has time left, unless it was created with none: an     *)
(* expired one is gone or restarted.                                         *)
TypeOK ==
    /\ GlbTimers \in Seq(TimerType) /\ GlbTimerIds \in 0..MaxTimers
    /\ \A i \in DOMAIN GlbTimers : GlbTimers[i].MsLeft > 0 \/ GlbTimers[i].PeriodicMs = 0
    /\ GlbSystemTimers \in Seq(SystemTimerType)
    /\ GlbActiveSystemTimer \in SystemTimerType \cup {None}
    /\ destroying \in 0..MaxTimers-1 \cup {None} /\ stopped \in BOOLEAN
    /\ since \in [Ids -> Nat]

(* No tick removes or restarts a timer before the ticks since its last start *)
(* add up to its timeout.                                                    *)
NotEarly ==
    [][\A i \in DOMAIN GlbTimers :
          LET t == GlbTimers[i]
              goes == t.id \notin Ids' \/ (since'[t.id] = 0 /\ t.periodic)
          IN  Tick /\ goes =>
                 since[t.id] + MilliTicks(GlbActiveSystemTimer.Tick) >= t.PeriodicMs]_vars

(* A timer misses ticks, because the loop ends early, but at most one for    *)
(* every timer created before it: each time one of these has gone.           *)
Missed(t) == since[t.id] - (t.PeriodicMs - t.MsLeft)
LongestTick == CHOOSE ms \in {MilliTicks(r) : r \in TickRates} :
                  \A r \in TickRates : MilliTicks(r) <= ms
MissedBounded ==
    /\ TypeOK
    /\ \A i \in DOMAIN GlbTimers :
          /\ Missed(GlbTimers[i]) >= 0
          /\ Missed(GlbTimers[i]) <=
                LongestTick * Cardinality({j \in 0..GlbTimers[i].id-1 : j \notin Ids})

(* The active system timer is the registered one whose tick is closest to    *)
(* 1000, the first of them if several are.                                   *)
ActiveIsClosest ==
    IF GlbSystemTimers = <<>> THEN GlbActiveSystemTimer = None
    ELSE \E i \in DOMAIN GlbSystemTimers :
            /\ GlbActiveSystemTimer = GlbSystemTimers[i]
            /\ \A j \in DOMAIN GlbSystemTimers :
                  LET d(k) == Abs(1000 - GlbSystemTimers[k].Tick) IN
                  d(i) <= d(j) /\ (d(i) = d(j) => i <= j)

(* Once a system timer is active, every single-shot timer expires or is      *)
(* destroyed, however many timers there are before it in the list.           *)
Waits(id) == \E i \in DOMAIN GlbTimers : GlbTimers[i].id = id /\ ~GlbTimers[i].periodic
SingleShotsExpire ==
    \A id \in 0..MaxTimers-1 :
        (Waits(id) /\ GlbActiveSystemTimer # None) ~> (id \notin Ids \/ stopped)

(* timers.c:119 says that TimersTick applies the tick to all active timers   *)
(* registered: every timer that goes on waiting has less time left.          *)
TickReachesAll ==
    [][Tick => \A i \in DOMAIN GlbTimers, j \in DOMAIN GlbTimers' :
                  GlbTimers'[j].id = GlbTimers[i].id =>
                     \/ GlbTimers'[j].MsLeft < GlbTimers[i].MsLeft
                     \/ GlbTimers'[j].MsLeft = GlbTimers[i].PeriodicMs /\ GlbTimers[i].periodic]_vars
=============================================================================
