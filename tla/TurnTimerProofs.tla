-------------------------- MODULE TurnTimerProofs --------------------------
(***************************************************************************)
(* Proofs about TurnTimer, for any limit and any number of turns.          *)
(***************************************************************************)
EXTENDS TurnTimer, TLAPS

\* The parts of TypeOK, by who changes them.
IOType ==
  /\ turn \in 0 .. MaxTurns /\ sent \in 0 .. turn
  /\ io \in {"wait", "started", "called", "prompting", "choosing", "empty", "telling", "chosen",
             "sent", "over"}
  /\ argument \in Values
DataType == remainingTime \in Values
FlagType == turnOver \in BOOLEAN
PlaceType ==
  /\ timer \in [Turns -> {"none", "begin", "loop", "write", "compare", "lock", "print", "done"}]
  /\ uiMutex \in Turns \cup {Nobody, IOThread}
TimeType ==
  /\ spent \in [Turns -> 0 .. 2 * Limit]
  /\ left \in [Turns -> Values] /\ last \in [Turns -> Values]
HistoryType == late \subseteq Turns /\ reused \subseteq Turns /\ writes \in [Turns -> 0 .. 2]

Types == IOType /\ DataType /\ FlagType /\ PlaceType /\ TimeType /\ HistoryType
LEMMA TypeParts == TypeOK <=> Types
BY DEF Types, TypeOK, IOType, DataType, FlagType, PlaceType, TimeType, HistoryType

\* A turn that was not played has no timer.
Fresh == \A t \in Turns : t > turn => timer[t] = "none" /\ spent[t] = 0 /\ writes[t] = 0

\* The threadData of every earlier turn is gone, and while that of the last one
\* is still there it says that the turn is over when it is.
EarlierReused == \A t \in Turns : t < turn => t \in reused
OverSaid == turn > 0 /\ turn \notin reused /\ io \in {"over", "wait"} => turnOver

\* A timer that wrote when its turn was over has not gone on to write again.
StrayOnce ==
  \A t \in Turns : t \notin reused =>
    \/ writes[t] = 0
    \/ writes[t] = 1 /\ t = turn /\ io = "wait" /\ timer[t] # "write"

\* A turn that did not begin beside an earlier timer has its threadData to itself.
Alone == turn > 0 /\ turn \notin late => \A t \in Turns : t < turn => ~Running(t)

\* A timer writes zero only in the last second.
LastSecond == \A t \in Turns : timer[t] = "write" /\ left[t] = 0 => spent[t] >= 2 * Limit - 1

\* So does chooseCardsToDiscard find no time.
NoTime ==
  /\ io # "wait" => turn > 0
  /\ \/ io = "started" /\ remainingTime = 0
     \/ io \in {"called", "prompting", "choosing"} /\ argument = 0
     => turn \in late \/ spent[turn] >= 2 * Limit - 1

StrayInv == Fresh /\ EarlierReused /\ OverSaid /\ StrayOnce
ChoiceInv == Alone /\ LastSecond /\ NoTime
IInv == Types /\ StrayInv /\ ChoiceInv

IOQuiet ==
  Call \/ Prompt \/ PressE \/ NoTimeToChoose \/ NothingToDiscard \/ SendTurnOver \/ EndTurn \/ Return

LEMMA InitIInv == Init => IInv
<1> SUFFICES ASSUME Init PROVE IInv
  OBVIOUS
<1> USE TimerAssumption DEF Init, Turns, Values
<1>1. IOType
  BY DEF IOType
<1>2. DataType
  BY DEF DataType
<1>3. FlagType
  BY DEF FlagType
<1>4. PlaceType
  BY DEF PlaceType
<1>5. TimeType
  BY DEF TimeType
<1>6. HistoryType
  BY DEF HistoryType
<1>7. Fresh
  BY DEF Fresh
<1>8. EarlierReused
  BY DEF EarlierReused
<1>9. OverSaid
  BY DEF OverSaid
<1>10. StrayOnce
  BY DEF StrayOnce
<1>11. Alone
  BY DEF Alone, Running
<1>12. LastSecond
  BY DEF LastSecond
<1>13. NoTime
  BY DEF NoTime
<1> QED BY <1>1, <1>2, <1>3, <1>4, <1>5, <1>6, <1>7, <1>8, <1>9, <1>10, <1>11, <1>12, <1>13
     DEF IInv, Types, StrayInv, ChoiceInv

\* A new turn: its timer is new, and the earlier ones have lost their threadData.
LEMMA StartTurnPreserves ==
  ASSUME IInv, StartTurn PROVE IInv'
<1>1. /\ turn \in Nat /\ turn + 1 \in Turns /\ turn' = turn + 1
      /\ io = "wait" /\ io' = "started" /\ Started \subseteq Turns
      /\ MaxTurns \in Nat /\ Limit \in Nat \ {0}
  BY TimerAssumption DEF IInv, Types, IOType, StartTurn, IO, Turns, Started
<1>2. /\ timer' = [timer EXCEPT ![turn + 1] = "begin"]
      /\ late' = IF \E t \in Started : Running(t) THEN late \cup {turn + 1} ELSE late
      /\ reused' = reused \cup Started
      /\ UNCHANGED <<argument, sent, spent, left, last, uiMutex, writes>>
  BY DEF StartTurn
<1>3. remainingTime' = Limit /\ turnOver' = FALSE
  BY DEF StartTurn
<1>4. IOType'
  BY <1>1, <1>2 DEF IInv, Types, IOType, Turns
<1>5. DataType'
  BY <1>1, <1>3 DEF DataType, Values
<1>6. FlagType'
  BY <1>3, Zenon DEF FlagType
<1>7. PlaceType'
  BY <1>1, <1>2 DEF IInv, Types, PlaceType
<1>8. TimeType'
  BY <1>2 DEF IInv, Types, TimeType
<1>9. HistoryType'
  BY <1>1, <1>2 DEF IInv, Types, HistoryType
<1>10. Fresh'
  BY <1>1, <1>2 DEF IInv, Types, PlaceType, StrayInv, Fresh, Turns
<1>11. EarlierReused'
  BY <1>1, <1>2 DEF EarlierReused, Started, Turns
<1>12. OverSaid'
  BY <1>1 DEF OverSaid
<1>13. StrayOnce'
  BY <1>1, <1>2 DEF IInv, StrayInv, StrayOnce, Fresh, Started, Turns
<1>14. Alone'
  BY <1>1, <1>2 DEF IInv, Types, PlaceType, ChoiceInv, Alone, Running, Started, Turns
<1>15. LastSecond'
  BY <1>1, <1>2 DEF IInv, Types, PlaceType, ChoiceInv, LastSecond
<1>16. NoTime'
  BY <1>1, <1>3 DEF NoTime
<1> QED BY <1>4, <1>5, <1>6, <1>7, <1>8, <1>9, <1>10, <1>11, <1>12, <1>13, <1>14, <1>15, <1>16
     DEF IInv, Types, StrayInv, ChoiceInv

\* The other steps of the IO thread leave the timers alone.
LEMMA IOPreserves ==
  ASSUME IInv, IOQuiet PROVE IInv'
<1> USE DEF IOQuiet, IO, Call, Prompt, PressE, NoTimeToChoose,
      NothingToDiscard, SendTurnOver, EndTurn, Return, Lock, Unlock
<1>1. UNCHANGED <<turn, timer, spent, left, last, late, reused, writes>>
  BY DEF data, timerVars
<1>2. io # "wait" /\ sent' \in {sent, turn} /\ uiMutex' \in {uiMutex, Nobody, IOThread}
  BY DEF data
<1>3. argument' \in {argument, remainingTime} /\ remainingTime' \in {remainingTime, 0}
  BY DEF data
<1>4. turnOver' = turnOver \/ turnOver' = TRUE
  BY Zenon DEF data
<1>5. io' \in {"over", "wait"} => (turnOver' = turnOver /\ io = "over") \/ turnOver' = TRUE
  BY DEF data
<1>6. \/ io' \notin {"started", "called", "prompting", "choosing"}
      \/ io = "started" /\ io' = "called" /\ argument' = remainingTime
      \/ io \in {"called", "prompting"} /\ io' # "started" /\ argument' = argument
  BY DEF data
<1>7. io' \in {"wait", "started", "called", "prompting", "choosing", "empty", "telling", "chosen",
              "sent", "over"}
  OBVIOUS
<1> HIDE DEF IOQuiet, IO, Call, Prompt, PressE, NoTimeToChoose,
      NothingToDiscard, SendTurnOver, EndTurn, Return, Lock, Unlock
<1>8. IOType'
  BY <1>1, <1>2, <1>3, <1>7 DEF IInv, Types, IOType, DataType
<1>9. DataType'
  BY <1>3, TimerAssumption DEF IInv, Types, DataType, Values
<1>10. FlagType'
  BY <1>4 DEF IInv, Types, FlagType
<1>11. PlaceType'
  BY <1>1, <1>2 DEF IInv, Types, PlaceType
<1>12. TimeType'
  BY <1>1 DEF IInv, Types, TimeType
<1>13. HistoryType'
  BY <1>1 DEF IInv, Types, HistoryType
<1>14. Fresh'
  BY <1>1 DEF IInv, StrayInv, Fresh
<1>15. EarlierReused'
  BY <1>1 DEF IInv, StrayInv, EarlierReused
<1>16. OverSaid'
  BY <1>1, <1>5 DEF IInv, StrayInv, OverSaid
<1>17. StrayOnce'
  BY <1>1, <1>2 DEF IInv, StrayInv, StrayOnce
<1>18. Alone'
  BY <1>1 DEF IInv, ChoiceInv, Alone, Running
<1>19. LastSecond'
  BY <1>1 DEF IInv, ChoiceInv, LastSecond
<1>20. NoTime'
  BY <1>1, <1>2, <1>6 DEF IInv, ChoiceInv, NoTime
<1> QED BY <1>8, <1>9, <1>10, <1>11, <1>12, <1>13, <1>14, <1>15, <1>16, <1>17, <1>18, <1>19, <1>20
     DEF IInv, Types, StrayInv, ChoiceInv

\* The stack place of threadData is used by somebody else.
LEMMA ReusePreserves ==
  ASSUME IInv, Reuse PROVE IInv'
<1>1. /\ UNCHANGED <<turn, io, argument, sent, timer, spent, left, last, uiMutex, late, writes>>
      /\ io = "wait" /\ reused' = reused \cup Started
  BY DEF Reuse, ioVars, timerVars
<1>2. remainingTime' \in {0, Limit} /\ turnOver' \in BOOLEAN
  BY DEF Reuse
<1>3. Started \subseteq Turns /\ turn \in Nat
  BY TimerAssumption DEF IInv, Types, IOType, Started, Turns
<1>4. IOType'
  BY <1>1 DEF IInv, Types, IOType
<1>5. DataType'
  BY <1>2, TimerAssumption DEF DataType, Values
<1>6. FlagType'
  BY <1>2 DEF FlagType
<1>7. PlaceType'
  BY <1>1 DEF IInv, Types, PlaceType
<1>8. TimeType'
  BY <1>1 DEF IInv, Types, TimeType
<1>9. HistoryType'
  BY <1>1, <1>3 DEF IInv, Types, HistoryType
<1>10. Fresh'
  BY <1>1 DEF IInv, StrayInv, Fresh
<1>11. EarlierReused'
  BY <1>1 DEF IInv, StrayInv, EarlierReused
<1>12. OverSaid'
  BY <1>1, <1>3 DEF OverSaid, Started
<1>13. StrayOnce'
  BY <1>1 DEF IInv, StrayInv, StrayOnce
<1>14. Alone'
  BY <1>1 DEF IInv, ChoiceInv, Alone, Running
<1>15. LastSecond'
  BY <1>1 DEF IInv, ChoiceInv, LastSecond
<1>16. NoTime'
  BY <1>1 DEF NoTime
<1> QED BY <1>4, <1>5, <1>6, <1>7, <1>8, <1>9, <1>10, <1>11, <1>12, <1>13, <1>14, <1>15, <1>16
     DEF IInv, Types, StrayInv, ChoiceInv

\* Time passes for the timers that have begun.
LEMMA TickPreserves ==
  ASSUME IInv, Tick PROVE IInv'
<1>1. UNCHANGED <<turn, io, argument, sent, remainingTime, turnOver, timer, left, last,
                  uiMutex, late, reused, writes>>
  BY DEF Tick, ioVars, data
<1>2. /\ spent \in [Turns -> 0 .. 2 * Limit] /\ Limit \in Nat
      /\ spent' = [t \in Turns |->
           IF Running(t) /\ timer[t] # "begin" /\ spent[t] < 2 * Limit THEN spent[t] + 1 ELSE spent[t]]
  BY TimerAssumption DEF Tick, IInv, Types, TimeType
<1>3. \A t \in Turns :
        /\ spent'[t] \in 0 .. 2 * Limit /\ spent[t] \in Nat /\ spent[t] <= spent'[t]
        /\ timer[t] = "none" => spent'[t] = spent[t]
  BY <1>2 DEF Running
<1>4. IOType'
  BY <1>1 DEF IInv, Types, IOType
<1>5. DataType'
  BY <1>1 DEF IInv, Types, DataType
<1>6. FlagType'
  BY <1>1 DEF IInv, Types, FlagType
<1>7. PlaceType'
  BY <1>1 DEF IInv, Types, PlaceType
<1>8. TimeType'
  BY <1>1, <1>2, <1>3 DEF IInv, Types, TimeType
<1>9. HistoryType'
  BY <1>1 DEF IInv, Types, HistoryType
<1>10. Fresh'
  BY <1>1, <1>3 DEF IInv, StrayInv, Fresh
<1>11. EarlierReused'
  BY <1>1 DEF IInv, StrayInv, EarlierReused
<1>12. OverSaid'
  BY <1>1 DEF IInv, StrayInv, OverSaid
<1>13. StrayOnce'
  BY <1>1 DEF IInv, StrayInv, StrayOnce
<1>14. Alone'
  BY <1>1 DEF IInv, ChoiceInv, Alone, Running
<1>15. LastSecond'
  BY <1>1, <1>2, <1>3 DEF IInv, ChoiceInv, LastSecond
<1>16. NoTime'
  BY <1>1, <1>2, <1>3 DEF IInv, Types, IOType, ChoiceInv, NoTime, Turns
<1> QED BY <1>4, <1>5, <1>6, <1>7, <1>8, <1>9, <1>10, <1>11, <1>12, <1>13, <1>14, <1>15, <1>16
     DEF IInv, Types, StrayInv, ChoiceInv

\* Beginning, comparing and printing: nothing is written to threadData.
LEMMA PrintPreserves ==
  ASSUME IInv, NEW u \in Turns, Begin(u) \/ Compare(u) \/ LockGuard(u) \/ PrintTime(u) PROVE IInv'
<1>1. UNCHANGED <<turn, io, argument, sent, remainingTime, turnOver, spent, left, late, reused,
                  writes>>
  BY DEF Begin, Compare, LockGuard, PrintTime, ioVars, data
<1>2. /\ timer[u] \notin {"none", "done"}
      /\ \E to \in {"loop", "lock", "print"} : timer' = [timer EXCEPT ![u] = to]
  BY DEF Begin, Compare, LockGuard, PrintTime, Timer
<1>3. uiMutex' \in {uiMutex, Nobody, u} /\ (last' = last \/ last' = [last EXCEPT ![u] = remainingTime])
  BY DEF Begin, Compare, LockGuard, PrintTime
<1>4. IOType'
  BY <1>1 DEF IInv, Types, IOType
<1>5. DataType'
  BY <1>1 DEF IInv, Types, DataType
<1>6. FlagType'
  BY <1>1 DEF IInv, Types, FlagType
<1>7. PlaceType'
  BY <1>2, <1>3 DEF IInv, Types, PlaceType
<1>8. TimeType'
  BY <1>1, <1>3 DEF IInv, Types, TimeType, DataType
<1>9. HistoryType'
  BY <1>1 DEF IInv, Types, HistoryType
<1>10. Fresh'
  BY <1>1, <1>2 DEF IInv, Types, PlaceType, StrayInv, Fresh
<1>11. EarlierReused'
  BY <1>1 DEF IInv, StrayInv, EarlierReused
<1>12. OverSaid'
  BY <1>1 DEF IInv, StrayInv, OverSaid
<1>13. StrayOnce'
  BY <1>1, <1>2 DEF IInv, Types, PlaceType, StrayInv, StrayOnce
<1>14. Alone'
  BY <1>1, <1>2 DEF IInv, Types, PlaceType, ChoiceInv, Alone, Running
<1>15. LastSecond'
  BY <1>1, <1>2 DEF IInv, Types, PlaceType, ChoiceInv, LastSecond
<1>16. NoTime'
  BY <1>1 DEF IInv, ChoiceInv, NoTime
<1> QED BY <1>4, <1>5, <1>6, <1>7, <1>8, <1>9, <1>10, <1>11, <1>12, <1>13, <1>14, <1>15, <1>16
     DEF IInv, Types, StrayInv, ChoiceInv

\* The loop of countTime goes on only while turnOver is false and time is left.
LEMMA CheckPreserves ==
  ASSUME IInv, NEW u \in Turns, Check(u) PROVE IInv'
<1>1. UNCHANGED <<turn, io, argument, sent, remainingTime, turnOver, spent, uiMutex, late,
                  reused, writes>>
  BY DEF Check, ioVars, data
<1>2. /\ timer[u] \notin {"none", "done"}
      /\ \E to \in {"done", "write"} : timer' = [timer EXCEPT ![u] = to]
  BY DEF Check, Ends, GoesOn, Timer
<1>3. last' = last \/ last' = [last EXCEPT ![u] = 0]
  BY DEF Check, Ends, GoesOn
<1>4. /\ Limit \in Nat \ {0} /\ spent[u] \in 0 .. 2 * Limit
      /\ timer \in [Turns -> {"none", "begin", "loop", "write", "compare", "lock", "print", "done"}]
      /\ left \in [Turns -> Values]
  BY TimerAssumption DEF IInv, Types, TimeType, PlaceType
<1>5. \/ timer'[u] = "done" /\ left' = [left EXCEPT ![u] = 0]
      \/ /\ ~turnOver /\ spent[u] < 2 * Limit
         /\ left' = [left EXCEPT ![u] = (2 * Limit - spent[u]) \div 2]
  BY <1>4 DEF Check, Ends, GoesOn, Timer
<1>6. spent[u] < 2 * Limit =>
        /\ (2 * Limit - spent[u]) \div 2 \in Values
        /\ (2 * Limit - spent[u]) \div 2 = 0 => spent[u] >= 2 * Limit - 1
  BY <1>4 DEF Values
<1>7. left' \in [Turns -> Values]
  BY <1>4, <1>5, <1>6 DEF Values
<1>8. IOType'
  BY <1>1 DEF IInv, Types, IOType
<1>9. DataType'
  BY <1>1 DEF IInv, Types, DataType
<1>10. FlagType'
  BY <1>1 DEF IInv, Types, FlagType
<1>11. PlaceType'
  BY <1>1, <1>2 DEF IInv, Types, PlaceType
<1>12. TimeType'
  BY <1>1, <1>3, <1>7, TimerAssumption DEF IInv, Types, TimeType, Values
<1>13. HistoryType'
  BY <1>1 DEF IInv, Types, HistoryType
<1>14. Fresh'
  BY <1>1, <1>2 DEF IInv, Types, PlaceType, StrayInv, Fresh
<1>15. EarlierReused'
  BY <1>1 DEF IInv, StrayInv, EarlierReused
<1>16. OverSaid'
  BY <1>1 DEF IInv, StrayInv, OverSaid
<1>17. StrayOnce'
  BY <1>1, <1>2, <1>4, <1>5 DEF IInv, Types, IOType, StrayInv, StrayOnce, OverSaid, Turns
<1>18. Alone'
  BY <1>1, <1>2 DEF IInv, Types, PlaceType, ChoiceInv, Alone, Running
<1>19. LastSecond'
  BY <1>1, <1>2, <1>4, <1>5, <1>6 DEF IInv, ChoiceInv, LastSecond
<1>20. NoTime'
  BY <1>1 DEF IInv, ChoiceInv, NoTime
<1> QED BY <1>8, <1>9, <1>10, <1>11, <1>12, <1>13, <1>14, <1>15, <1>16, <1>17, <1>18, <1>19, <1>20
     DEF IInv, Types, StrayInv, ChoiceInv

\* What it computed is written, in its own turn or to what is there now.
LEMMA WritePreserves ==
  ASSUME IInv, NEW u \in Turns, Write(u) PROVE IInv'
<1>1. UNCHANGED <<turn, io, argument, sent, turnOver, spent, left, last, uiMutex, late, reused>>
  BY DEF Write, ioVars
<1>2. timer[u] = "write" /\ timer' = [timer EXCEPT ![u] = "compare"] /\ remainingTime' = left[u]
  BY DEF Write, Timer
<1>3. writes' = IF Over(u) /\ writes[u] < 2 THEN [writes EXCEPT ![u] = @ + 1] ELSE writes
  BY DEF Write
<1>4. u \notin reused /\ Over(u) => u = turn /\ io = "wait"
  BY TimerAssumption DEF IInv, Types, IOType, StrayInv, EarlierReused, Over, Turns
<1>5. IOType'
  BY <1>1 DEF IInv, Types, IOType
<1>6. DataType'
  BY <1>2 DEF IInv, Types, TimeType, DataType
<1>7. FlagType'
  BY <1>1 DEF IInv, Types, FlagType
<1>8. PlaceType'
  BY <1>1, <1>2 DEF IInv, Types, PlaceType
<1>9. TimeType'
  BY <1>1 DEF IInv, Types, TimeType
<1>10. HistoryType'
  BY <1>1, <1>3 DEF IInv, Types, HistoryType
<1>11. Fresh'
  BY <1>1, <1>2, <1>3 DEF IInv, Types, PlaceType, StrayInv, Fresh
<1>12. EarlierReused'
  BY <1>1 DEF IInv, StrayInv, EarlierReused
<1>13. OverSaid'
  BY <1>1 DEF IInv, StrayInv, OverSaid
<1>14. StrayOnce'
  BY <1>1, <1>2, <1>3, <1>4 DEF IInv, Types, PlaceType, HistoryType, StrayInv, StrayOnce
<1>15. Alone'
  BY <1>1, <1>2 DEF IInv, Types, PlaceType, ChoiceInv, Alone, Running
<1>16. LastSecond'
  BY <1>1, <1>2 DEF IInv, Types, PlaceType, ChoiceInv, LastSecond
<1>17. NoTime'
  BY <1>1, <1>2 DEF IInv, Types, IOType, PlaceType, StrayInv, Fresh, ChoiceInv, Alone, Running,
                    LastSecond, NoTime, Turns
<1> QED BY <1>5, <1>6, <1>7, <1>8, <1>9, <1>10, <1>11, <1>12, <1>13, <1>14, <1>15, <1>16, <1>17
     DEF IInv, Types, StrayInv, ChoiceInv

LEMMA NextIInv == IInv /\ [Next]_vars => IInv'
<1> SUFFICES ASSUME IInv, [Next]_vars PROVE IInv'
  OBVIOUS
<1>1. CASE StartTurn
  BY <1>1, StartTurnPreserves
<1>2. CASE IOStep \/ PressE
  BY <1>2, IOPreserves DEF IOStep, IOQuiet
<1>3. CASE Reuse
  BY <1>3, ReusePreserves
<1>4. CASE Tick
  BY <1>4, TickPreserves
<1>5. ASSUME NEW u \in Turns, TimerStep(u) PROVE IInv'
  BY <1>5, PrintPreserves, CheckPreserves, WritePreserves DEF TimerStep
<1>6. CASE UNCHANGED vars
  BY <1>6 DEF vars, ioVars, data, timerVars, IInv, Types, IOType, DataType, FlagType,
     PlaceType, TimeType, HistoryType, StrayInv, Fresh, EarlierReused, OverSaid, StrayOnce,
     ChoiceInv, Alone, LastSecond, NoTime, Running
<1> QED BY <1>1, <1>2, <1>3, <1>4, <1>5, <1>6 DEF Next

LEMMA Inductive == Spec => []IInv
<1>1. IInv /\ [Next]_vars => IInv'
  BY NextIInv
<1> QED BY <1>1, InitIInv, PTL DEF Spec

\* Every variable of the IO thread, of threadData and of the timers keeps its type:
\* remainingTime never leaves the limit, whatever is written over it.
THEOREM Typed == Spec => []TypeOK
<1>1. IInv => TypeOK
  BY TypeParts DEF IInv
<1> QED BY <1>1, Inductive, PTL

\* However long a timer outlives its turn, it writes into the stack once, unless
\* the turnOver it reads was overwritten.
THEOREM StrayWriteOnce == Spec => []OneStrayWrite
<1>1. IInv => OneStrayWrite
  BY DEF IInv, Types, IOType, DataType, FlagType,
     PlaceType, TimeType, HistoryType, StrayInv, StrayOnce, OneStrayWrite
<1> QED BY <1>1, Inductive, PTL

\* With any limit, a player finds no time to choose only because of a timer that
\* is in its last second or was running when the turn began.
THEOREM ChoiceIsTaken == Spec => []SkippedOnlyByTimers
<1>1. IInv => SkippedOnlyByTimers
  BY DEF IInv, ChoiceInv, NoTime, SkippedOnlyByTimers
<1> QED BY <1>1, Inductive, PTL
=============================================================================
