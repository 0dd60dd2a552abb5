----------------------------- MODULE TurnTimer -----------------------------
(***************************************************************************)
(* myTurn of the client and the timers it starts.  The IO thread runs      *)
(* myTurn; each turn detaches a thread that runs countTime with a pointer  *)
(* to the threadData on the stack of myTurn.  Nobody joins it: it may run  *)
(* on when myTurn has returned, and then reads and writes whatever is there*)
(* now, such as the threadData of the next turn, which gets the same place.*)
(* threadData has no lock; uiMutex is held around some of the printing.    *)
(*                                                                         *)
(* Time is counted in half seconds, so that (int) has something to cut off.*)
(* The screen itself is left out.                                          *)
(***************************************************************************)
EXTENDS Integers

CONSTANTS
  Limit,    \* TIME_LIMIT_PER_TURN, in seconds
  MaxTurns  \* bound: turns played

ASSUME TimerAssumption == Limit \in Nat \ {0} /\ MaxTurns \in Nat \ {0}

Turns == 1 .. MaxTurns
Nobody == 0
IOThread == -1

VARIABLES
  \* the IO thread
  turn,        \* the turn played last
  io,          \* where it is in myTurn, chooseCardsToDiscard and discardCards; or "wait"
  argument,    \* the remainingTime chooseCardsToDiscard was given
  sent,        \* the last turn for which PlAYER_TURN_OVER was sent
  \* the threadData
  remainingTime,
  turnOver,
  \* the timers
  timer,       \* where each is in countTime
  spent,       \* half seconds since its begin
  left,        \* what it is about to write
  last,        \* lastTimeUpdate
  uiMutex,     \* who holds it: Nobody, IOThread, or a timer by its turn
  \* history
  late,        \* the turns that began with an earlier timer still running
  reused,      \* the turns whose threadData was overwritten when they were over
  writes       \* what each timer wrote when its turn was over, up to 2

ioVars == <<turn, io, argument, sent>>
data == <<remainingTime, turnOver>>
timerVars == <<timer, spent, left, last>>
vars == <<ioVars, data, timerVars, uiMutex, late, reused, writes>>

Started == 1 .. turn
Running(t) == timer[t] \notin {"none", "done"}
Over(t) == t < turn \/ (t = turn /\ io = "wait")

(***************************************************************************)
(* The IO thread.                                                          *)
(***************************************************************************)
IO(from, to) == io = from /\ io' = to

\* PLAYER_TURN: myTurn, its threadData, and the timer thread.
StartTurn_Uninitialised ==
  /\ turn < MaxTurns
  /\ IO("wait", "started")
  /\ turn' = turn + 1
  /\ turnOver' = FALSE
  /\ timer' = [timer EXCEPT ![turn'] = "begin"]
  /\ late' = IF \E t \in Started : Running(t) THEN late \cup {turn'} ELSE late
  /\ reused' = reused \cup Started
  /\ UNCHANGED <<argument, sent, remainingTime, spent, left, last, uiMutex, writes>>
StartTurn ==
  /\ turn < MaxTurns
  /\ IO("wait", "started")
  /\ turn' = turn + 1
  /\ remainingTime' = Limit /\ turnOver' = FALSE
  /\ timer' = [timer EXCEPT ![turn'] = "begin"]
  /\ late' = IF \E t \in Started : Running(t) THEN late \cup {turn'} ELSE late
  /\ reused' = reused \cup Started
  /\ UNCHANGED <<argument, sent, spent, left, last, uiMutex, writes>>

\* The call of chooseCardsToDiscard copies remainingTime.
Call ==
  /\ IO("started", "called")
  /\ argument' = remainingTime
  /\ UNCHANGED <<turn, sent, data, timerVars, uiMutex, late, reused, writes>>

\* uiMutex.lock() around a prompt, and unlock().
Lock(from, to) ==
  /\ IO(from, to)
  /\ uiMutex = Nobody
  /\ uiMutex' = IOThread
  /\ UNCHANGED <<turn, argument, sent, data, timerVars, late, reused, writes>>
Unlock(from, to) ==
  /\ IO(from, to)
  /\ uiMutex' = Nobody
  /\ UNCHANGED <<turn, argument, sent, data, timerVars, late, reused, writes>>
Prompt == Lock("called", "prompting") \/ Unlock("prompting", "choosing")

\* The loop of chooseCardsToDiscard: it ends when the player is done, having
\* chosen cards or none, and does not begin when no time was left.
PressE ==
  /\ argument > 0
  /\ IO("choosing", "empty") \/ IO("choosing", "chosen")
  /\ UNCHANGED <<turn, argument, sent, data, timerVars, uiMutex, late, reused, writes>>
NoTimeToChoose ==
  /\ argument <= 0
  /\ IO("choosing", "empty")
  /\ UNCHANGED <<turn, argument, sent, data, timerVars, uiMutex, late, reused, writes>>

\* discardCards, which says so when there is nothing to discard.
NothingToDiscard == Lock("empty", "telling") \/ Unlock("telling", "chosen")

\* sendMessage of PlAYER_TURN_OVER...
SendTurnOver ==
  /\ IO("chosen", "sent")
  /\ sent' = turn
  /\ UNCHANGED <<turn, argument, data, timerVars, uiMutex, late, reused, writes>>

\* ...and only then the threadData; the table is shown, and myTurn returns.
EndTurn_NotOver ==
  /\ IO("sent", "over")
  /\ remainingTime' = 0
  /\ UNCHANGED <<turn, argument, sent, turnOver, timerVars, uiMutex, late, reused, writes>>
EndTurn ==
  /\ IO("sent", "over")
  /\ remainingTime' = 0 /\ turnOver' = TRUE
  /\ UNCHANGED <<turn, argument, sent, timerVars, uiMutex, late, reused, writes>>
Return ==
  /\ IO("over", "wait")
  /\ UNCHANGED <<turn, argument, sent, data, timerVars, uiMutex, late, reused, writes>>

\* Whatever the IO thread calls next has its own variables in that place.
Reuse ==
  /\ io = "wait" /\ turn > 0
  /\ remainingTime' \in {0, Limit} /\ turnOver' \in BOOLEAN
  /\ reused' = reused \cup Started
  /\ UNCHANGED <<ioVars, timerVars, uiMutex, late, writes>>

(***************************************************************************)
(* countTime.                                                              *)
(***************************************************************************)
Timer(t, from, to) == timer[t] = from /\ timer' = [timer EXCEPT ![t] = to]

\* begin = clock().
Begin(t) ==
  /\ Timer(t, "begin", "loop")
  /\ UNCHANGED <<ioVars, data, spent, left, last, uiMutex, late, reused, writes>>

\* The condition of the loop, and time_spent against the limit; what countTime has in
\* variables of its own is gone when it ends.
Ends(t) ==
  /\ Timer(t, "loop", "done")
  /\ left' = [left EXCEPT ![t] = 0] /\ last' = [last EXCEPT ![t] = 0]
GoesOn(t, seconds) ==
  /\ Timer(t, "loop", "write")
  /\ left' = [left EXCEPT ![t] = seconds]
  /\ UNCHANGED last
Check_NoLimit(t) ==
  /\ \/ turnOver /\ Ends(t)
     \/ ~turnOver /\ GoesOn(t, (2 * Limit - spent[t]) \div 2)
  /\ UNCHANGED <<ioVars, data, spent, uiMutex, late, reused, writes>>
Check_HalfSeconds(t) ==
  /\ \/ (turnOver \/ spent[t] >= 2 * Limit) /\ Ends(t)
     \/ ~turnOver /\ spent[t] < 2 * Limit /\ GoesOn(t, 2 * Limit - spent[t])
  /\ UNCHANGED <<ioVars, data, spent, uiMutex, late, reused, writes>>
Check(t) ==
  /\ \/ (turnOver \/ spent[t] >= 2 * Limit) /\ Ends(t)
     \/ ~turnOver /\ spent[t] < 2 * Limit /\ GoesOn(t, (2 * Limit - spent[t]) \div 2)
  /\ UNCHANGED <<ioVars, data, spent, uiMutex, late, reused, writes>>

\* remainingTime = ..., into the threadData or what is there now.
Write(t) ==
  /\ Timer(t, "write", "compare")
  /\ remainingTime' = left[t]
  /\ writes' = IF Over(t) /\ writes[t] < 2 THEN [writes EXCEPT ![t] = @ + 1] ELSE writes
  /\ UNCHANGED <<ioVars, turnOver, spent, left, last, uiMutex, late, reused>>

\* Against lastTimeUpdate, then lock_guard around the printing.
Compare(t) ==
  /\ \/ remainingTime # last[t] /\ Timer(t, "compare", "lock")
     \/ remainingTime = last[t] /\ Timer(t, "compare", "loop")
  /\ UNCHANGED <<ioVars, data, spent, left, last, uiMutex, late, reused, writes>>
LockGuard(t) ==
  /\ Timer(t, "lock", "print")
  /\ uiMutex = Nobody
  /\ uiMutex' = t
  /\ UNCHANGED <<ioVars, data, spent, left, last, late, reused, writes>>
PrintTime_KeepsLock(t) ==
  /\ Timer(t, "print", "loop")
  /\ last' = [last EXCEPT ![t] = remainingTime]
  /\ UNCHANGED <<ioVars, data, spent, left, uiMutex, late, reused, writes>>
PrintTime(t) ==
  /\ Timer(t, "print", "loop")
  /\ last' = [last EXCEPT ![t] = remainingTime]
  /\ uiMutex' = Nobody
  /\ UNCHANGED <<ioVars, data, spent, left, late, reused, writes>>

\* clock(), of the timers that have begun.
Tick ==
  /\ \E t \in Turns : Running(t) /\ timer[t] # "begin" /\ spent[t] < 2 * Limit
  /\ spent' = [t \in Turns |->
       IF Running(t) /\ timer[t] # "begin" /\ spent[t] < 2 * Limit THEN spent[t] + 1 ELSE spent[t]]
  /\ UNCHANGED <<ioVars, data, timer, left, last, uiMutex, late, reused, writes>>

(***************************************************************************)
(* Together.                                                               *)
(***************************************************************************)
Init ==
  /\ turn = 0 /\ io = "wait" /\ argument = Limit /\ sent = 0
  /\ remainingTime = 0 /\ turnOver = FALSE
  /\ timer = [t \in Turns |-> "none"] /\ spent = [t \in Turns |-> 0]
  /\ left = [t \in Turns |-> 0] /\ last = [t \in Turns |-> 0]
  /\ uiMutex = Nobody
  /\ late = {} /\ reused = {} /\ writes = [t \in Turns |-> 0]

IOStep ==
  \/ Call \/ Prompt \/ NoTimeToChoose \/ NothingToDiscard \/ SendTurnOver \/ EndTurn \/ Return
TimerStep(t) == Begin(t) \/ Check(t) \/ Write(t) \/ Compare(t) \/ LockGuard(t) \/ PrintTime(t)
Next ==
  \/ StartTurn \/ IOStep \/ PressE \/ Reuse \/ Tick
  \/ \E t \in Turns : TimerStep(t)
Spec == Init /\ [][Next]_vars

\* Both threads run while they can, and the clock goes on.  Nobody has to give
\* the client a turn, and the player need never be done.
FairSpec ==
  /\ Spec
  /\ WF_vars(IOStep) /\ WF_vars(Tick)
  /\ \A t \in Turns : WF_vars(TimerStep(t))

Values == 0 .. Limit
TypeOK ==
  /\ turn \in 0 .. MaxTurns /\ sent \in 0 .. turn
  /\ io \in {"wait", "started", "called", "prompting", "choosing", "empty", "telling", "chosen",
             "sent", "over"}
  /\ argument \in Values /\ remainingTime \in Values /\ turnOver \in BOOLEAN
  /\ timer \in [Turns -> {"none", "begin", "loop", "write", "compare", "lock", "print", "done"}]
  /\ spent \in [Turns -> 0 .. 2 * Limit]
  /\ left \in [Turns -> Values] /\ last \in [Turns -> Values]
  /\ uiMutex \in Turns \cup {Nobody, IOThread}
  /\ late \subseteq Turns /\ reused \subseteq Turns /\ writes \in [Turns -> 0 .. 2]

\* A turn in which the player cannot choose comes from a timer only: its own,
\* with less than a second left, or an earlier one that was running on.
SkippedOnlyByTimers ==
  io \in {"called", "prompting", "choosing"} /\ argument = 0 =>
    turn \in late \/ spent[turn] >= 2 * Limit - 1

\* Once its turn is over a timer writes into the stack of others once at most,
\* unless what it takes for turnOver was overwritten.
OneStrayWrite == \A t \in Turns : writes[t] > 1 => t \in reused

\* Every timer ends, at its limit at the latest, whatever it reads.
TimersEnd == \A t \in Turns : timer[t] = "begin" ~> timer[t] = "done"

\* The timers never keep the IO thread from uiMutex: a turn comes to its player,
\* and ends when that player is done.
TurnGoesOn ==
  /\ io = "started" ~> io \in {"choosing", "wait"}
  /\ io \in {"empty", "chosen"} ~> io = "wait"

\* TIME_LIMIT_PER_TURN (GameManager.h): the turn is passed on when its time is up.
TimeLimit == \A t \in Turns : (turn = t /\ spent[t] = 2 * Limit) ~> sent >= t
=============================================================================
