------------------------ MODULE PaperSession_proofs ------------------------
(***************************************************************************)
(* Theorems of PaperSession, for every candle file, every window, every    *)
(* risk setting and any number of sessions, crashes and cursor resets.     *)
(***************************************************************************)
EXTENDS PaperSession, RiskManager_proofs, FiniteSetTheorems, TLAPS

-----------------------------------------------------------------------------
(* Types                                                                   *)

\* A running process has a session id, and a candle is stored after it was taken.
ProcessOK ==
  /\ pc # "idle" => sessions >= 1
  /\ pc \in {"store", "storeExit"} => feed.cursor >= 1

TypeInv == TypeOK /\ ProcessOK

\* The fields of the feed and of the order in hand are numbers of their ranges.
LEMMA FieldTypes ==
  ASSUME TypeOK
  PROVE  /\ feed.start \in Nat /\ feed.cursor \in 0..Total
         /\ feed.taken \in Nat /\ feed.limit \in Nat
         /\ order.entry \in Candle \cup {-1} /\ order.amount \in Int
         /\ order.left \in 0..Expiration
BY DEF TypeOK, FeedState, OrderState

\* The next index, the window and its feature rows stay inside the candle file.
LEMMA FeedTypes ==
  ASSUME TypeOK
  PROVE  /\ NextIndex \in 0..Total
         /\ StepLimit \in Nat
         /\ WindowStart \in 0..Total
         /\ FeatureRows \subseteq Candle
         /\ FeatureRows \subseteq 0..(feed.cursor - 1)
<1>1. NextIndex \in 0..Total /\ StepLimit \in Nat
  BY SessionAssumption DEF TypeOK, NextIndex, StepLimit, Min2, Max2
<1>2. WindowStart \in 0..Total
  BY FieldTypes, SessionAssumption DEF WindowStart, Max2
<1>3. FeatureRows \subseteq 0..(feed.cursor - 1)
  BY <1>2, FieldTypes, SessionAssumption DEF FeatureRows
<1>4. 0..(feed.cursor - 1) \subseteq Candle
  BY FieldTypes, SessionAssumption DEF Candle
<1> QED
  BY <1>1, <1>2, <1>3, <1>4

\* get_next_candle moves the feed by one candle and keeps it inside the file.
LEMMA TakenCandle ==
  ASSUME NEW f \in FeedState, f.cursor \in 0..(Total - 1)
  PROVE  /\ [f EXCEPT !.cursor = f.cursor + 1, !.taken = f.taken + 1] \in FeedState
         /\ [f EXCEPT !.cursor = f.cursor + 1, !.taken = f.taken + 1].cursor = f.cursor + 1
         /\ [f EXCEPT !.cursor = f.cursor + 1, !.taken = f.taken + 1].start = f.start
         /\ [f EXCEPT !.cursor = f.cursor + 1, !.taken = f.taken + 1].taken = f.taken + 1
         /\ [f EXCEPT !.cursor = f.cursor + 1, !.taken = f.taken + 1].limit = f.limit
<1> DEFINE c == f.cursor + 1   t == f.taken + 1
<1>1. c \in 0..Total /\ t \in Nat
  BY SessionAssumption DEF FeedState
<1> HIDE DEF c, t
<1>2. /\ [f EXCEPT !.cursor = c, !.taken = t] \in FeedState
      /\ [f EXCEPT !.cursor = c, !.taken = t].cursor = c
      /\ [f EXCEPT !.cursor = c, !.taken = t].start = f.start
      /\ [f EXCEPT !.cursor = c, !.taken = t].taken = t
      /\ [f EXCEPT !.cursor = c, !.taken = t].limit = f.limit
  BY <1>1 DEF FeedState
<1> QED
  BY <1>2 DEF c, t

\* The open order after one more expiration candle.
LEMMA UpdatedOrder ==
  ASSUME NEW o \in OrderState, NEW l \in 0..Expiration
  PROVE  /\ [o EXCEPT !.left = l] \in OrderState
         /\ [o EXCEPT !.left = l].entry = o.entry
         /\ [o EXCEPT !.left = l].amount = o.amount
BY DEF OrderState

\* An order opened on a row of the window is a well-typed observation.
LEMMA OpenedType ==
  ASSUME TypeOK, NEW candle \in FeatureRows
  PROVE  [session |-> sessions, entry |-> candle, latest |-> feed.cursor - 1] \in OpenedOrder
<1>1. candle \in Candle /\ candle \in 0..(feed.cursor - 1)
  BY FeedTypes
<1>2. feed.cursor - 1 \in Candle
  <2>1. feed.cursor \in 0..Total /\ Total \in Nat
    BY FieldTypes, SessionAssumption
  <2> QED
    BY <1>1, <2>1 DEF Candle
<1> QED
  BY <1>1, <1>2 DEF TypeOK, OpenedOrder

\* _trade_record builds a row.
LEMMA RecordType ==
  ASSUME TypeOK, NEW candle \in Candle \cup {-1}, NEW result \in Results,
         NEW profit \in Int, NEW newBalance \in Int
  PROVE  Record(candle, result, profit, newBalance) \in Row
BY SessionAssumption DEF TypeOK, Record, Row, Candle

\* The memory of a process that has ended is well typed.
LEMMA NoProcessTypes ==
  ASSUME NoProcess, Total \in Nat
  PROVE  /\ pc' = "idle" /\ trade' \in Row
         /\ feed' \in FeedState
         /\ steps' \in Nat /\ balance' \in Int /\ risk' \in RiskState
         /\ traded' \subseteq Candle
         /\ order' \in OrderState
<1>1. risk' \in RiskState
  BY RiskAssumption DEF NoProcess, FreshRisk, RiskState
<1>2. trade' \in Row
  BY DEF NoProcess, NoRow, Row, Results
<1>3. order' \in OrderState
  BY SessionAssumption DEF NoProcess, NoOrder, OrderState
<1> QED
  BY <1>1, <1>2, <1>3, RiskAssumption DEF NoProcess, NoFeed, FeedState

\* Every step of a session, of its loss and of the operator keeps the types.
LEMMA TypeStep ==
  ASSUME TypeInv, [Next]_vars
  PROVE  TypeInv'
<1> USE SessionAssumption
<1>0. TypeOK /\ ProcessOK
  BY DEF TypeInv
<1>1. CASE UNCHANGED vars
  BY <1>0, <1>1 DEF vars, disk, environment, engine, TypeInv, TypeOK, ProcessOK
<1>2. CASE StartSession
  <2>1. feed' \in FeedState
    <3>1. NextIndex \in Nat /\ NextIndex \in 0..Total /\ StepLimit \in Nat
      BY <1>0, FeedTypes
    <3> QED
      BY <1>2, <3>1 DEF StartSession, FeedState
  <2> QED
    BY <1>0, <1>2, <2>1 DEF StartSession, disk, TypeInv, TypeOK, ProcessOK
<1>3. ASSUME TakeCandle
      PROVE  /\ feed' \in FeedState
             /\ feed'.cursor >= 1
             /\ cursorFile' \in -1..(Total - 1)
  <2>1. feed.cursor \in 0..(Total - 1)
    BY <1>0, <1>3, FieldTypes DEF TakeCandle, HasNext
  <2>2. feed \in FeedState
    BY <1>0 DEF TypeOK
  <2>3. feed' \in FeedState /\ feed'.cursor = feed.cursor + 1
    BY <1>3, <2>1, <2>2, TakenCandle DEF TakeCandle
  <2> QED
    BY <1>3, <2>1, <2>3 DEF TakeCandle
<1>4. ASSUME pc \in {"store", "storeExit"}, Collect
      PROVE  collected' \subseteq Candle
  <2>1. feed.cursor - 1 \in Candle
    BY <1>0, <1>4, FieldTypes DEF ProcessOK, Candle
  <2> QED
    BY <1>0, <1>4, <2>1 DEF Collect, TypeOK
<1>5. CASE NextCandle
  BY <1>0, <1>3, <1>5 DEF NextCandle, environment, TypeInv, TypeOK, ProcessOK
<1>6. CASE StoreCandle
  BY <1>0, <1>4, <1>6 DEF StoreCandle, environment, engine, TypeInv, TypeOK, ProcessOK
<1>7. CASE SkipCandle
  BY <1>0, <1>7 DEF SkipCandle, disk, environment, engine, TypeInv, TypeOK, ProcessOK
<1>8. CASE DeclineSignal
  <2>1. PICK prediction \in Predictions, candle \in FeatureRows :
          /\ Refusal(prediction, candle) # "NONE"
          /\ trade' = Record(candle, Refusal(prediction, candle), 0, balance)
    BY <1>8 DEF DeclineSignal
  <2>2. candle \in Candle
    BY <1>0, FeedTypes
  <2>3. Refusal(prediction, candle) \in Results
    BY <2>1 DEF Refusal, Results
  <2>4. trade' \in Row
    BY <1>0, <2>1, <2>2, <2>3, RecordType DEF TypeOK
  <2> QED
    BY <1>0, <1>8, <2>4
    DEF DeclineSignal, CanDecide, disk, environment, engine, TypeInv, TypeOK, ProcessOK
<1>9. CASE OpenOrder
  <2>1. PICK prediction \in Predictions, candle \in FeatureRows :
          /\ order' = [entry |-> candle, amount |-> PositionSize(risk), left |-> Expiration]
          /\ traded' = traded \cup {candle}
          /\ opened' = Append(opened, [session |-> sessions, entry |-> candle,
                                       latest |-> feed.cursor - 1])
    BY <1>9 DEF OpenOrder
  <2>2. candle \in Candle
    BY <1>0, FeedTypes
  <2>3. PositionSize(risk) \in Int
    BY <1>0, RiskTypes DEF TypeOK
  <2>4. order' \in OrderState
    BY <2>1, <2>2, <2>3 DEF OrderState
  <2>5. opened' \in Seq(OpenedOrder)
    BY <1>0, <2>1, OpenedType DEF TypeOK
  <2> QED
    BY <1>0, <1>9, <2>1, <2>2, <2>4, <2>5
    DEF OpenOrder, CanDecide, disk, environment, TypeInv, TypeOK, ProcessOK
<1>10. CASE AwaitCandle
  <2>1. order' \in OrderState
    <3> DEFINE l == order.left - 1
    <3>1. l \in 0..Expiration
      <4>1. order.left \in 0..Expiration /\ order.left > 0
        BY <1>0, <1>10, FieldTypes DEF AwaitCandle
      <4> QED
        BY <4>1
    <3>2. order' = [order EXCEPT !.left = l]
      BY <1>10 DEF AwaitCandle
    <3> HIDE DEF l
    <3> QED
      BY <1>0, <3>1, <3>2, UpdatedOrder DEF TypeOK
  <2> QED
    BY <1>0, <1>3, <1>10, <2>1
    DEF AwaitCandle, environment, TypeInv, TypeOK, ProcessOK
<1>11. CASE StoreExitCandle
  BY <1>0, <1>4, <1>11 DEF StoreExitCandle, environment, engine, TypeInv, TypeOK, ProcessOK
<1>12. NoOrder \in OrderState
  BY DEF NoOrder, OrderState
<1>13. CASE LeavePending
  <2>1. trade' \in Row
    <3>1. "PENDING" \in Results
      BY DEF Results
    <3>2. order.entry \in Candle \cup {-1} /\ balance \in Int
      BY <1>0, FieldTypes DEF TypeOK
    <3> QED
      BY <1>0, <1>13, <3>1, <3>2, RecordType DEF LeavePending
  <2> QED
    BY <1>0, <1>12, <1>13, <2>1
    DEF LeavePending, disk, environment, TypeInv, TypeOK, ProcessOK
<1>14. CASE ResolveOrder
  <2>1. PICK won \in BOOLEAN :
          /\ balance' = balance + Profit(order.amount, won)
          /\ risk' = RegisterResult(risk, Profit(order.amount, won))
          /\ trade' = Record(order.entry, IF won THEN "WON" ELSE "LOST",
                             Profit(order.amount, won), balance + Profit(order.amount, won))
    BY <1>14 DEF ResolveOrder
  <2>2. Profit(order.amount, won) \in Int
    BY <1>0, FieldTypes, ProfitType
  <2>3. balance' \in Int /\ risk' \in RiskState
    BY <1>0, <2>1, <2>2, RiskTypes DEF TypeOK
  <2>4. trade' \in Row
    <3> DEFINE result == IF won THEN "WON" ELSE "LOST"
               profit == Profit(order.amount, won)
    <3>1. result \in Results
      BY DEF Results
    <3>2. order.entry \in Candle \cup {-1} /\ balance + profit \in Int
      BY <1>0, <2>2, FieldTypes DEF TypeOK
    <3>3. trade' = Record(order.entry, result, profit, balance + profit)
      BY <2>1
    <3> HIDE DEF result, profit
    <3> QED
      BY <1>0, <2>2, <3>1, <3>2, <3>3, RecordType DEF profit
  <2> QED
    BY <1>0, <1>12, <1>14, <2>3, <2>4
    DEF ResolveOrder, disk, environment, TypeInv, TypeOK, ProcessOK
<1>15. NoRow \in Row
  BY DEF NoRow, Row, Results
<1>16. CASE LogTrade
  BY <1>0, <1>16 DEF LogTrade, environment, engine, TypeInv, TypeOK, ProcessOK
<1>17. CASE InsertTrade
  BY <1>0, <1>15, <1>17 DEF InsertTrade, environment, engine, TypeInv, TypeOK, ProcessOK
<1>18. CASE FinishSession
  <2>1. windows' \in Seq(Candle \X Candle)
    <3>1. CASE feed.cursor > feed.start
      <4>1. feed.start \in Candle /\ feed.cursor - 1 \in Candle
        BY <1>0, <3>1, FieldTypes DEF Candle
      <4> QED
        BY <1>0, <1>18, <3>1, <4>1 DEF FinishSession, TypeOK
    <3>2. CASE ~(feed.cursor > feed.start)
      BY <1>0, <1>18, <3>2 DEF FinishSession, TypeOK
    <3> QED
      BY <3>1, <3>2
  <2> QED
    BY <1>0, <1>18, <2>1, NoProcessTypes
    DEF FinishSession, environment, TypeInv, TypeOK, ProcessOK
<1>19. ASSUME LoseProcess, cursorFile' \in -1..(Total - 1)
       PROVE  TypeInv'
  <2>1. dead' \subseteq 1..sessions
    BY <1>0, <1>19 DEF LoseProcess, TypeOK, ProcessOK
  <2> QED
    BY <1>0, <1>19, <2>1, NoProcessTypes DEF LoseProcess, TypeInv, TypeOK, ProcessOK
<1>20. CASE Crash
  BY <1>0, <1>19, <1>20 DEF Crash, TypeOK
<1>21. CASE CrashInCursorWrite
  BY <1>0, <1>19, <1>21 DEF CrashInCursorWrite, TypeOK
<1>22. CASE KillOn
  BY <1>0, <1>22 DEF KillOn, disk, engine, TypeInv, TypeOK, ProcessOK
<1>23. CASE KillOff
  BY <1>0, <1>23 DEF KillOff, disk, engine, TypeInv, TypeOK, ProcessOK
<1>24. CASE ResetCursor
  BY <1>0, <1>24 DEF ResetCursor, engine, TypeInv, TypeOK, ProcessOK
<1> QED
  BY <1>1, <1>2, <1>5, <1>6, <1>7, <1>8, <1>9, <1>10, <1>11, <1>13, <1>14, <1>16,
     <1>17, <1>18, <1>20, <1>21, <1>22, <1>23, <1>24 DEF Next, EngineStep

\* The files and the memory before the first session are well typed.
LEMMA TypeInit == Init => TypeInv
<1> SUFFICES ASSUME Init PROVE TypeInv
  OBVIOUS
<1>1. FreshRisk \in RiskState
  BY RiskAssumption DEF FreshRisk, RiskState
<1>2. NoRow \in Row
  BY DEF NoRow, Row, Results
<1>3. NoOrder \in OrderState
  BY SessionAssumption DEF NoOrder, OrderState
<1>4. NoFeed \in FeedState
  BY SessionAssumption DEF NoFeed, FeedState
<1>5. flat \subseteq Flatable /\ cursorFile \in -1..(Total - 1) /\ collected \subseteq Candle
  BY SessionAssumption DEF Init
<1>6. csvLog \in Seq(Row) /\ db \in Seq(Row) /\ windows \in Seq(Candle \X Candle)
  BY DEF Init
<1>7. opened \in Seq(OpenedOrder) /\ dead \subseteq 1..sessions /\ traded \subseteq Candle
  BY DEF Init
<1> QED
  <2>1. kill \in BOOLEAN /\ sessions \in Nat /\ resets \in Nat /\ steps \in Nat
    BY DEF Init
  <2>2. balance \in Int
    BY RiskAssumption DEF Init
  <2>3. TypeOK
    BY <1>1, <1>2, <1>3, <1>4, <1>5, <1>6, <1>7, <2>1, <2>2 DEF Init, TypeOK
  <2> QED
    BY <2>3 DEF Init, TypeInv, ProcessOK

\* Every variable of a session always holds a value the program can give it:
\* cursor files point into the candle file, records are rows, ids are sessions.
THEOREM TypeInvariance == Spec => []TypeInv
<1> QED
  BY TypeInit, TypeStep, PTL DEF Spec

\* TypeOK as the runs check it: the public half of the inductive invariant.
THEOREM TypeCorrect == Spec => []TypeOK
<1>1. TypeInv => TypeOK
  BY DEF TypeInv
<1> QED
  BY <1>1, TypeInvariance, PTL

-----------------------------------------------------------------------------
(* The books of a session                                                  *)

\* BooksAgree, with what a row waiting to be logged already says, and what a
\* fresh process starts from.
BooksInv ==
  /\ \A i \in 1..Len(csvLog) : csvLog[i].session <= sessions
  /\ pc = "idle" => balance = InitialBalance /\ risk = FreshRisk
  /\ pc # "idle" => risk.balance = balance /\ risk.initial + risk.dailyPnl = balance
  /\ pc \notin {"idle", "log"} => balance = LastBalance
  /\ pc = "log" => trade.balance = balance
  /\ pc \in {"log", "insert"} => trade.session = sessions

\* The last element of a sequence just appended to.
LEMMA LastOfAppend ==
  ASSUME NEW S, NEW q \in Seq(S), NEW x \in S
  PROVE  /\ Append(q, x) # <<>>
         /\ Len(Append(q, x)) = Len(q) + 1
         /\ Append(q, x)[Len(q) + 1] = x
         /\ \A i \in 1..Len(q) : Append(q, x)[i] = q[i]
OBVIOUS

\* Every step keeps the books equal: a resolution moves all of them at once,
\* and a row carries the balance the broker has when it is logged.
LEMMA BooksStep ==
  ASSUME TypeInv, BooksInv, [Next]_vars
  PROVE  BooksInv'
<1>0. TypeOK
  BY DEF TypeInv
<1>1. ASSUME UNCHANGED <<csvLog, sessions, balance, risk, trade>>,
             \/ pc' = pc
             \/ /\ pc \in {"loop", "store", "check", "await", "storeExit"}
                /\ pc' \in {"loop", "store", "check", "await", "storeExit"}
      PROVE  BooksInv'
  BY <1>1 DEF BooksInv, LastBalance
<1>2. ASSUME NoProcess, UNCHANGED <<csvLog, sessions>>
      PROVE  BooksInv'
  BY <1>2 DEF NoProcess, BooksInv
<1>3. CASE UNCHANGED vars
  BY <1>1, <1>3 DEF vars, disk, environment, engine
<1>4. CASE StartSession
  <2>1. /\ csvLog' = csvLog /\ sessions' = sessions + 1 /\ balance' = balance
        /\ risk' = risk /\ pc = "idle" /\ pc' = "loop"
    BY <1>4 DEF StartSession, disk
  <2>2. sessions \in Nat /\ csvLog \in Seq(Row) /\ Len(csvLog) \in Nat
    BY <1>0 DEF TypeOK
  <2>3. \A i \in 1..Len(csvLog) : csvLog[i] \in Row /\ csvLog[i].session \in Nat
    <3>1. \A row \in Row : row.session \in Nat
      BY DEF Row
    <3>2. \A i \in 1..Len(csvLog) : csvLog[i] \in Row
      BY <2>2
    <3> QED
      BY <3>1, <3>2
  <2>4. \A i \in 1..Len(csvLog') : csvLog'[i].session < sessions'
    BY <2>1, <2>2, <2>3 DEF BooksInv
  <2>5. LastBalance' = InitialBalance
    <3>1. CASE csvLog = <<>>
      BY <2>1, <3>1 DEF LastBalance
    <3>2. CASE csvLog # <<>>
      <4>1. Len(csvLog) \in 1..Len(csvLog)
        BY <2>2, <3>2
      <4> QED
        BY <2>1, <2>2, <2>3, <2>4, <4>1 DEF LastBalance
    <3> QED
      BY <3>1, <3>2
  <2>6. FreshRisk.balance = InitialBalance /\ FreshRisk.initial + FreshRisk.dailyPnl = InitialBalance
    BY RiskAssumption DEF FreshRisk
  <2> QED
    BY <2>1, <2>2, <2>3, <2>4, <2>5, <2>6 DEF BooksInv
<1>5. CASE NextCandle
  BY <1>1, <1>5 DEF NextCandle, environment
<1>6. CASE StoreCandle
  BY <1>1, <1>6 DEF StoreCandle, environment, engine
<1>7. CASE SkipCandle
  BY <1>1, <1>7 DEF SkipCandle, disk, environment, engine
<1>8. CASE DeclineSignal
  <2>1. trade'.balance = balance /\ trade'.session = sessions
    BY <1>8 DEF DeclineSignal, Record
  <2> QED
    BY <1>8, <2>1 DEF DeclineSignal, CanDecide, disk, environment, engine, BooksInv
<1>9. CASE OpenOrder
  BY <1>1, <1>9 DEF OpenOrder, CanDecide, disk, environment
<1>10. CASE AwaitCandle
  BY <1>1, <1>10 DEF AwaitCandle, environment
<1>11. CASE StoreExitCandle
  BY <1>1, <1>11 DEF StoreExitCandle, environment, engine
<1>12. CASE LeavePending
  <2>1. trade'.balance = balance /\ trade'.session = sessions
    BY <1>12 DEF LeavePending, Record
  <2> QED
    BY <1>12, <2>1 DEF LeavePending, disk, environment, BooksInv
<1>13. CASE ResolveOrder
  <2>1. PICK won \in BOOLEAN :
          /\ balance' = balance + Profit(order.amount, won)
          /\ risk' = RegisterResult(risk, Profit(order.amount, won))
          /\ trade' = Record(order.entry, IF won THEN "WON" ELSE "LOST",
                             Profit(order.amount, won), balance + Profit(order.amount, won))
    BY <1>13 DEF ResolveOrder
  <2>2. Profit(order.amount, won) \in Int
    BY <1>0, FieldTypes, ProfitType
  <2>3. risk \in RiskState /\ risk.initial \in Int /\ risk.dailyPnl \in Int /\ balance \in Int
    BY <1>0 DEF TypeOK, RiskState
  <2>4. /\ risk'.balance = risk.balance + Profit(order.amount, won)
        /\ risk'.initial = risk.initial
        /\ risk'.dailyPnl = risk.dailyPnl + Profit(order.amount, won)
    BY <2>1, <2>2, <2>3, RegisteredResult
  <2>5. risk.balance = balance /\ risk.initial + risk.dailyPnl = balance
    BY <1>13 DEF ResolveOrder, BooksInv
  <2>6. risk'.balance = balance' /\ risk'.initial + risk'.dailyPnl = balance'
    BY <2>1, <2>2, <2>3, <2>4, <2>5
  <2>7. trade'.balance = balance' /\ trade'.session = sessions
    BY <2>1 DEF Record
  <2> QED
    BY <1>13, <2>6, <2>7 DEF ResolveOrder, disk, environment, BooksInv
<1>14. CASE LogTrade
  <2>1. trade \in Row /\ csvLog \in Seq(Row) /\ csvLog' = Append(csvLog, trade)
    BY <1>0, <1>14 DEF TypeOK, LogTrade
  <2>2. /\ csvLog' # <<>> /\ Len(csvLog') = Len(csvLog) + 1 /\ Len(csvLog) \in Nat
        /\ csvLog'[Len(csvLog) + 1] = trade
        /\ \A i \in 1..Len(csvLog) : csvLog'[i] = csvLog[i]
    BY <2>1, LastOfAppend
  <2>3. trade.session = sessions /\ trade.balance = balance
    BY <1>14 DEF LogTrade, BooksInv
  <2>4. /\ sessions' = sessions /\ balance' = balance /\ risk' = risk /\ trade' = trade
        /\ pc = "log" /\ pc' = "insert"
    BY <1>14 DEF LogTrade, environment, engine
  <2>5. LastBalance' = balance'
    BY <2>2, <2>3, <2>4 DEF LastBalance
  <2>6. \A i \in 1..Len(csvLog') : csvLog'[i].session <= sessions'
    <3>1. sessions <= sessions
      BY <1>0 DEF TypeOK
    <3> QED
      BY <2>2, <2>3, <2>4, <3>1 DEF BooksInv
  <2> QED
    BY <2>3, <2>4, <2>5, <2>6 DEF BooksInv
<1>15. CASE InsertTrade
  BY <1>15 DEF InsertTrade, environment, engine, BooksInv, LastBalance
<1>16. CASE FinishSession
  BY <1>2, <1>16 DEF FinishSession, environment
<1>17. CASE Crash
  BY <1>2, <1>17 DEF Crash, LoseProcess
<1>18. CASE CrashInCursorWrite
  BY <1>2, <1>18 DEF CrashInCursorWrite, LoseProcess
<1>19. CASE KillOn
  BY <1>1, <1>19 DEF KillOn, disk, engine
<1>20. CASE KillOff
  BY <1>1, <1>20 DEF KillOff, disk, engine
<1>21. CASE ResetCursor
  BY <1>1, <1>21 DEF ResetCursor, engine
<1> QED
  BY <1>3, <1>4, <1>5, <1>6, <1>7, <1>8, <1>9, <1>10, <1>11, <1>12, <1>13, <1>14,
     <1>15, <1>16, <1>17, <1>18, <1>19, <1>20, <1>21 DEF Next, EngineStep

\* The inductive form: the books agree, and the row being stored carries the
\* balance they agree on.
THEOREM BooksInvariance == Spec => []BooksInv
<1>1. Init => BooksInv
  BY DEF Init, BooksInv
<1> QED
  BY <1>1, BooksStep, TypeInvariance, PTL DEF Spec

\* PaperBroker.balance, RiskManager.balance, the day's profit and the session's
\* last logged row stay one number, whatever stakes, payouts, losses and crashes.
THEOREM BooksCorrect == Spec => []BooksAgree
<1>1. BooksInv => BooksAgree
  BY DEF BooksInv, BooksAgree
<1> QED
  BY <1>1, BooksInvariance, PTL

-----------------------------------------------------------------------------
(* Candles                                                                 *)

\* While the cursor file is never lost, it names the last candle taken, and
\* every order was opened on a candle it has already passed.
CursorInv ==
  resets = 0 /\ ~TornWrites =>
    /\ pc # "idle" => feed.cursor = cursorFile + 1
    /\ \A k \in 1..Len(opened) :
         /\ opened[k].latest <= cursorFile
         /\ pc \in {"store", "check"} => opened[k].latest < cursorFile
    /\ NoCandleReplayed

\* _traded_timestamps holds the entries of the running session's orders.
EntryInv ==
  /\ \A k \in 1..Len(opened) :
       /\ opened[k].session <= sessions
       /\ pc # "idle" /\ opened[k].session = sessions => opened[k].entry \in traded
  /\ OneOrderPerCandleInSession

\* Every step keeps the opened orders behind the cursor, as long as neither a
\* reset nor a torn write takes the cursor back.
LEMMA CursorStep ==
  ASSUME TypeInv, CursorInv, [Next]_vars
  PROVE  CursorInv'
<1>0. TypeOK /\ ProcessOK
  BY DEF TypeInv
<1>1. ASSUME UNCHANGED <<opened, cursorFile, resets>>, UNCHANGED feed \/ pc' = "idle",
             pc' # "idle" => pc # "idle",
             pc' \in {"store", "check"} => pc \in {"store", "check"}
      PROVE  CursorInv'
  BY <1>1 DEF CursorInv, NoCandleReplayed
<1>2. ASSUME TakeCandle, UNCHANGED <<opened, resets>>, pc # "idle"
      PROVE  CursorInv'
  <2> SUFFICES ASSUME resets = 0, ~TornWrites
               PROVE  /\ feed'.cursor = cursorFile' + 1
                      /\ \A k \in 1..Len(opened') : opened'[k].latest < cursorFile'
                      /\ NoCandleReplayed'
    <3>1. \A k \in 1..Len(opened) : opened[k].latest \in Int
      <4>1. \A o \in OpenedOrder : o.latest \in Int
        BY DEF OpenedOrder, Candle
      <4> QED
        BY <1>0, <4>1 DEF TypeOK
    <3>2. cursorFile' \in Int
      BY <1>0, <1>2, FieldTypes DEF TakeCandle
    <3> QED
      BY <1>2, <3>1, <3>2 DEF CursorInv
  <2>1. feed.cursor \in 0..(Total - 1) /\ feed \in FeedState
    <3>1. feed.cursor \in 0..Total /\ Total \in Nat /\ feed \in FeedState
      BY <1>0, FieldTypes, SessionAssumption DEF TypeOK
    <3>2. feed.cursor < Total
      BY <1>2 DEF TakeCandle, HasNext
    <3> QED
      BY <3>1, <3>2
  <2>2. feed'.cursor = feed.cursor + 1
    BY <1>2, <2>1, TakenCandle DEF TakeCandle
  <2>3. cursorFile' = feed.cursor /\ feed.cursor = cursorFile + 1
    BY <1>2 DEF TakeCandle, CursorInv
  <2>4. \A k \in 1..Len(opened) : opened[k].latest <= cursorFile /\ opened[k].latest \in Int
    <3>1. \A o \in OpenedOrder : o.latest \in Int
      BY DEF OpenedOrder, Candle
    <3> QED
      BY <1>0, <3>1 DEF TypeOK, CursorInv
  <2>5. cursorFile \in Int
    BY <1>0 DEF TypeOK
  <2> QED
    BY <1>2, <2>2, <2>3, <2>4, <2>5 DEF CursorInv, NoCandleReplayed
<1>3. CASE UNCHANGED vars
  BY <1>3 DEF vars, disk, environment, engine, CursorInv, NoCandleReplayed
<1>4. CASE StartSession
  <2>1. feed'.cursor = cursorFile + 1
    BY <1>4 DEF StartSession, NextIndex
  <2> QED
    BY <1>4, <2>1 DEF StartSession, disk, CursorInv, NoCandleReplayed
<1>5. CASE NextCandle
  BY <1>2, <1>5 DEF NextCandle, environment
<1>6. CASE StoreCandle
  BY <1>1, <1>6 DEF StoreCandle, environment, engine
<1>7. CASE SkipCandle
  BY <1>1, <1>7 DEF SkipCandle, disk, environment, engine
<1>8. CASE DeclineSignal
  BY <1>1, <1>8 DEF DeclineSignal, CanDecide, disk, environment, engine
<1>9. CASE OpenOrder
  <2>1. PICK candle \in FeatureRows :
          opened' = Append(opened, [session |-> sessions, entry |-> candle,
                                    latest |-> feed.cursor - 1])
    BY <1>9 DEF OpenOrder
  <2> DEFINE new == [session |-> sessions, entry |-> candle, latest |-> feed.cursor - 1]
  <2>2. new \in OpenedOrder /\ opened \in Seq(OpenedOrder)
    BY <1>0, <2>1, OpenedType DEF TypeOK
  <2>3. /\ Len(opened') = Len(opened) + 1 /\ Len(opened) \in Nat
        /\ opened'[Len(opened) + 1] = new
        /\ \A k \in 1..Len(opened) : opened'[k] = opened[k]
    BY <2>1, <2>2, LastOfAppend
  <2>4. /\ cursorFile' = cursorFile /\ feed' = feed /\ resets' = resets
        /\ pc = "check" /\ pc' = "await"
    BY <1>9 DEF OpenOrder, CanDecide, disk, environment
  <2>5. cursorFile \in Int /\ new.latest = feed.cursor - 1
    BY <1>0 DEF TypeOK
  <2> HIDE DEF new
  <2> SUFFICES ASSUME resets = 0, ~TornWrites
               PROVE  /\ feed'.cursor = cursorFile' + 1
                      /\ \A k \in 1..Len(opened') : opened'[k].latest <= cursorFile'
                      /\ NoCandleReplayed'
    BY <2>4 DEF CursorInv
  <2>6. /\ feed.cursor = cursorFile + 1
        /\ \A k \in 1..Len(opened) : opened[k].latest < cursorFile /\ opened[k].latest <= cursorFile
        /\ new.latest = cursorFile
    BY <2>4, <2>5 DEF CursorInv
  <2>7. \A k \in 1..Len(opened') : k \in 1..Len(opened) \/ k = Len(opened) + 1
    BY <2>3
  <2>8. \A k \in 1..Len(opened') : opened'[k].latest <= cursorFile'
    BY <2>3, <2>4, <2>5, <2>6, <2>7
  <2>9. \A i, j \in 1..Len(opened') : i < j => opened'[i].latest < opened'[j].latest
    <3> SUFFICES ASSUME NEW i \in 1..Len(opened'), NEW j \in 1..Len(opened'), i < j
                 PROVE  opened'[i].latest < opened'[j].latest
      OBVIOUS
    <3>1. i \in 1..Len(opened)
      BY <2>3
    <3>2. CASE j \in 1..Len(opened)
      BY <2>3, <3>1, <3>2 DEF CursorInv, NoCandleReplayed
    <3>3. CASE j = Len(opened) + 1
      BY <2>3, <2>6, <3>1, <3>3
    <3> QED
      BY <2>7, <3>2, <3>3
  <2> QED
    BY <2>4, <2>6, <2>8, <2>9 DEF NoCandleReplayed
<1>10. CASE AwaitCandle
  BY <1>2, <1>10 DEF AwaitCandle, environment
<1>11. CASE StoreExitCandle
  BY <1>1, <1>11 DEF StoreExitCandle, environment, engine
<1>12. CASE LeavePending
  BY <1>1, <1>12 DEF LeavePending, disk, environment
<1>13. CASE ResolveOrder
  BY <1>1, <1>13 DEF ResolveOrder, disk, environment
<1>14. CASE LogTrade
  BY <1>1, <1>14 DEF LogTrade, environment, engine
<1>15. CASE InsertTrade
  BY <1>1, <1>15 DEF InsertTrade, environment, engine
<1>16. CASE FinishSession
  BY <1>1, <1>16 DEF FinishSession, NoProcess, environment
<1>17. CASE Crash
  BY <1>1, <1>17 DEF Crash, LoseProcess, NoProcess
<1>18. CASE CrashInCursorWrite
  BY <1>18 DEF CrashInCursorWrite, CursorInv
<1>19. CASE KillOn
  BY <1>1, <1>19 DEF KillOn, disk, engine
<1>20. CASE KillOff
  BY <1>1, <1>20 DEF KillOff, disk, engine
<1>21. CASE ResetCursor
  BY <1>0, <1>21 DEF ResetCursor, CursorInv, TypeOK
<1> QED
  BY <1>3, <1>4, <1>5, <1>6, <1>7, <1>8, <1>9, <1>10, <1>11, <1>12, <1>13, <1>14,
     <1>15, <1>16, <1>17, <1>18, <1>19, <1>20, <1>21 DEF Next, EngineStep

\* While crashes leave the cursor file whole and nobody resets it, orders are
\* opened on strictly later candles, through any number of crashes and sessions.
THEOREM NoReplay == ~TornWrites => (Spec => []NoCandleReplayed)
<1> SUFFICES ASSUME ~TornWrites PROVE Spec => []NoCandleReplayed
  OBVIOUS
<1>1. Init => CursorInv
  BY DEF Init, CursorInv, NoCandleReplayed
<1>2. TypeInv /\ CursorInv => NoCandleReplayed
  BY DEF CursorInv, NoCandleReplayed
<1> QED
  BY <1>1, <1>2, CursorStep, TypeInvariance, PTL DEF Spec

\* Every step keeps the running session's entries among its traded timestamps.
LEMMA EntryStep ==
  ASSUME TypeInv, EntryInv, [Next]_vars
  PROVE  EntryInv'
<1>0. TypeOK /\ ProcessOK
  BY DEF TypeInv
<1>1. ASSUME UNCHANGED <<opened, sessions>>,
             pc' # "idle" => pc # "idle" /\ traded' = traded
      PROVE  EntryInv'
  BY <1>1 DEF EntryInv, OneOrderPerCandleInSession
<1>2. CASE UNCHANGED vars
  BY <1>1, <1>2 DEF vars, disk, environment, engine
<1>3. CASE StartSession
  <2>1. sessions \in Nat /\ \A k \in 1..Len(opened) : opened[k].session \in Nat
    <3>1. \A o \in OpenedOrder : o.session \in Nat
      BY DEF OpenedOrder
    <3> QED
      BY <1>0, <3>1 DEF TypeOK
  <2>2. opened' = opened /\ sessions' = sessions + 1
    BY <1>3 DEF StartSession
  <2> QED
    BY <2>1, <2>2 DEF EntryInv, OneOrderPerCandleInSession
<1>4. CASE OpenOrder
  <2>1. PICK prediction \in Predictions, candle \in FeatureRows :
          /\ Refusal(prediction, candle) = "NONE"
          /\ traded' = traded \cup {candle}
          /\ opened' = Append(opened, [session |-> sessions, entry |-> candle,
                                       latest |-> feed.cursor - 1])
    BY <1>4 DEF OpenOrder
  <2>2. candle \notin traded
    BY <2>1, SessionAssumption DEF Refusal
  <2> DEFINE new == [session |-> sessions, entry |-> candle, latest |-> feed.cursor - 1]
  <2>3. new \in OpenedOrder /\ opened \in Seq(OpenedOrder)
    BY <1>0, <2>1, OpenedType DEF TypeOK
  <2>4. /\ Len(opened') = Len(opened) + 1 /\ Len(opened) \in Nat
        /\ opened'[Len(opened) + 1] = new
        /\ \A k \in 1..Len(opened) : opened'[k] = opened[k]
    BY <2>1, <2>3, LastOfAppend
  <2>5. new.entry = candle /\ new.session = sessions
    OBVIOUS
  <2>6. sessions' = sessions /\ sessions \in Nat /\ pc # "idle" /\ pc' # "idle"
    BY <1>0, <1>4 DEF OpenOrder, CanDecide, environment, TypeOK
  <2> HIDE DEF new
  <2>7. \A k \in 1..Len(opened') : k \in 1..Len(opened) \/ k = Len(opened) + 1
    BY <2>4
  <2>8. \A k \in 1..Len(opened') :
          /\ opened'[k].session <= sessions'
          /\ opened'[k].session = sessions' => opened'[k].entry \in traded'
    BY <2>1, <2>4, <2>5, <2>6, <2>7 DEF EntryInv
  <2>9. ASSUME NEW i \in 1..Len(opened'), NEW j \in 1..Len(opened'), i < j,
               opened'[i].session = opened'[j].session
        PROVE  opened'[i].entry # opened'[j].entry
    <3>1. i \in 1..Len(opened)
      BY <2>4, <2>9
    <3>2. CASE j \in 1..Len(opened)
      BY <2>4, <2>9, <3>1, <3>2 DEF EntryInv, OneOrderPerCandleInSession
    <3>3. CASE j = Len(opened) + 1
      BY <2>2, <2>4, <2>5, <2>6, <2>9, <3>1, <3>3 DEF EntryInv
    <3> QED
      BY <2>7, <3>2, <3>3
  <2> QED
    BY <2>8, <2>9 DEF EntryInv, OneOrderPerCandleInSession
<1>5. CASE NextCandle \/ StoreCandle \/ SkipCandle \/ DeclineSignal
  BY <1>1, <1>5 DEF NextCandle, StoreCandle, SkipCandle, DeclineSignal, CanDecide,
     disk, environment, engine
<1>6. CASE AwaitCandle \/ StoreExitCandle \/ LeavePending \/ ResolveOrder
  BY <1>1, <1>6 DEF AwaitCandle, StoreExitCandle, LeavePending, ResolveOrder,
     disk, environment, engine
<1>7. CASE LogTrade \/ InsertTrade
  BY <1>1, <1>7 DEF LogTrade, InsertTrade, environment, engine
<1>8. CASE FinishSession \/ Crash \/ CrashInCursorWrite
  BY <1>1, <1>8 DEF FinishSession, Crash, CrashInCursorWrite, LoseProcess, NoProcess, environment
<1>9. CASE KillOn \/ KillOff \/ ResetCursor
  BY <1>1, <1>9 DEF KillOn, KillOff, ResetCursor, disk, engine
<1> QED
  BY <1>2, <1>3, <1>4, <1>5, <1>6, <1>7, <1>8, <1>9 DEF Next, EngineStep

\* No session opens two orders on one candle, whichever rows lose their features.
THEOREM OneOrder == Spec => []OneOrderPerCandleInSession
<1>1. Init => EntryInv
  BY DEF Init, EntryInv, OneOrderPerCandleInSession
<1>2. EntryInv => OneOrderPerCandleInSession
  BY DEF EntryInv
<1> QED
  BY <1>1, <1>2, EntryStep, TypeInvariance, PTL DEF Spec

-----------------------------------------------------------------------------
(* The daily loss                                                          *)

\* An order that waits for its candles was opened with permission to trade and
\* stakes what the risk manager allows at the balance it still has.
LossInv ==
  /\ DailyLossBounded
  /\ risk.initial = InitialBalance
  /\ pc \in {"await", "storeExit"} =>
       CanTrade(risk) /\ order.amount = PositionSize(risk)

\* Every step keeps the loss bound: an order is opened only above the limit.
LEMMA LossStep ==
  ASSUME TypeInv, BooksInv, LossInv, [Next]_vars
  PROVE  LossInv'
<1>0. TypeOK
  BY DEF TypeInv
<1>1. ASSUME UNCHANGED <<balance, risk, order>>, pc' \notin {"await", "storeExit"}
      PROVE  LossInv'
  BY <1>1 DEF LossInv, DailyLossBounded
<1>2. ASSUME UNCHANGED <<balance, risk>>, pc \in {"await", "storeExit"},
             order' = order \/ order' = [order EXCEPT !.left = order.left - 1]
      PROVE  LossInv'
  <2>1. order \in OrderState
    BY <1>0 DEF TypeOK
  <2>2. [order EXCEPT !.left = order.left - 1].amount = order.amount
    BY <2>1 DEF OrderState
  <2> QED
    <3>1. DailyLossBounded'
      BY <1>2 DEF LossInv, DailyLossBounded
    <3>2. CanTrade(risk)' /\ order'.amount = PositionSize(risk)'
      BY <1>2, <2>2 DEF LossInv
    <3>3. risk'.initial = InitialBalance
      BY <1>2 DEF LossInv
    <3> QED
      BY <3>1, <3>2, <3>3 DEF LossInv
<1>3. InitialBalance \in Nat /\ InitialBalance * DailyLossPerMille \in Nat
  BY RiskAssumption
<1>4. ASSUME NoProcess
      PROVE  LossInv'
  <2>1. balance' = InitialBalance /\ pc' = "idle" /\ risk'.initial = InitialBalance
    BY <1>4 DEF NoProcess, FreshRisk
  <2>2. DailyLossBounded'
    BY <1>3, <2>1, NothingLost DEF DailyLossBounded
  <2> QED
    BY <2>1, <2>2 DEF LossInv
<1>5. CASE UNCHANGED vars
  BY <1>5 DEF vars, disk, environment, engine, LossInv, DailyLossBounded
<1>6. CASE StartSession \/ NextCandle \/ StoreCandle \/ SkipCandle \/ DeclineSignal
  BY <1>1, <1>6 DEF StartSession, NextCandle, StoreCandle, SkipCandle, DeclineSignal, CanDecide,
     disk, environment, engine
<1>7. CASE OpenOrder
  <2>1. DailyLossBounded'
    BY <1>7 DEF OpenOrder, LossInv, DailyLossBounded
  <2>2. PICK prediction \in Predictions, candle \in FeatureRows :
          /\ Refusal(prediction, candle) = "NONE"
          /\ order' = [entry |-> candle, amount |-> PositionSize(risk), left |-> Expiration]
    BY <1>7 DEF OpenOrder
  <2>3. CanTrade(risk)
    BY <2>2, SessionAssumption DEF Refusal, BlockedByRisk
  <2>4. risk' = risk
    BY <1>7 DEF OpenOrder
  <2> QED
    BY <2>1, <2>2, <2>3, <2>4 DEF LossInv
<1>8. CASE AwaitCandle \/ StoreExitCandle
  BY <1>2, <1>8 DEF AwaitCandle, StoreExitCandle, engine
<1>9. CASE LeavePending
  BY <1>9 DEF LeavePending, LossInv, DailyLossBounded
<1>10. CASE ResolveOrder
  <2>1. PICK won \in BOOLEAN :
          /\ balance' = balance + Profit(order.amount, won)
          /\ risk' = RegisterResult(risk, Profit(order.amount, won))
    BY <1>10 DEF ResolveOrder
  <2>2. pc = "await" /\ pc' = "log"
    BY <1>10 DEF ResolveOrder
  <2>3. risk' = RegisterResult(risk, Profit(order.amount, won))
    BY <2>1
  <2>4. /\ risk.balance = balance /\ risk.initial + risk.dailyPnl = balance
        /\ risk.initial = InitialBalance
    BY <2>2 DEF BooksInv, LossInv
  <2>5. /\ risk \in RiskState /\ risk.dailyPnl \in Int /\ balance \in Int
        /\ risk.dailyPnl = balance - InitialBalance
    <3>1. risk \in RiskState /\ balance \in Int
      BY <1>0 DEF TypeOK
    <3>2. risk.dailyPnl \in Int
      BY <3>1 DEF RiskState
    <3>3. InitialBalance + risk.dailyPnl = balance
      BY <2>4
    <3>4. InitialBalance \in Int
      BY RiskAssumption
    <3>5. risk.dailyPnl = balance - InitialBalance
      BY <3>1, <3>2, <3>3, <3>4
    <3> QED
      BY <3>1, <3>2, <3>5
  <2>6. /\ 1000 * risk.dailyPnl > -(InitialBalance * DailyLossPerMille)
        /\ balance > 0 /\ order.amount = CeilDiv(balance * RiskRate, 1000)
    BY <2>2, <2>4 DEF LossInv, CanTrade, PositionSize
  <2>7. balance \in Nat /\ order.amount \in Nat
    BY <2>5, <2>6, StakeSign
  <2>8. Profit(order.amount, won) \in Int /\ Profit(order.amount, won) >= -order.amount
    BY <2>7, StakeResult
  <2>9. /\ balance' \in Int /\ balance' >= balance - order.amount
    BY <2>1, <2>7, <2>8
  <2>10. DailyLossBounded'
    <3>1. 1000 * (balance - InitialBalance) > -(InitialBalance * DailyLossPerMille)
      BY <2>5, <2>6
    <3> QED
      BY <2>6, <2>7, <2>9, <3>1, OneStakeLost DEF DailyLossBounded
  <2>11. risk'.initial = InitialBalance
    BY <2>3, <2>4, <2>5, <2>8, RegisteredResult
  <2> QED
    BY <2>2, <2>10, <2>11 DEF LossInv
<1>11. CASE LogTrade \/ InsertTrade
  BY <1>1, <1>11 DEF LogTrade, InsertTrade, engine
<1>12. CASE FinishSession \/ Crash \/ CrashInCursorWrite
  BY <1>4, <1>12 DEF FinishSession, Crash, CrashInCursorWrite, LoseProcess
<1>13. CASE KillOn \/ KillOff \/ ResetCursor
  BY <1>13 DEF KillOn, KillOff, ResetCursor, disk, engine, LossInv, DailyLossBounded
<1> QED
  BY <1>5, <1>6, <1>7, <1>8, <1>9, <1>10, <1>11, <1>12, <1>13 DEF Next, EngineStep

\* A session never loses more than its daily limit and one opening stake, however
\* its balance moved before: the last order it may place is that small.
THEOREM DailyLoss == Spec => []DailyLossBounded
<1>1. Init => LossInv
  BY NothingLost DEF Init, FreshRisk, LossInv, DailyLossBounded
<1>2. LossInv => DailyLossBounded
  BY DEF LossInv
<1> QED
  BY <1>1, <1>2, LossStep, TypeInvariance, BooksInvariance, PTL DEF Spec

-----------------------------------------------------------------------------
(* The stores implement the abstract journal                               *)

\* What BooksInv and the types say of the row between the two stores.
LEMMA StagedRow ==
  ASSUME TypeInv, BooksInv, pc \in {"log", "insert"}
  PROVE  trade \in Row /\ trade # NoRow
<1>1. trade \in Row /\ trade.session >= 1
  BY DEF TypeInv, TypeOK, ProcessOK, BooksInv
<1>2. NoRow.session = 0
  BY DEF NoRow
<1> QED
  BY <1>1, <1>2

\* Every step is one of the journal's or leaves its variables alone.
LEMMA JournalStep ==
  ASSUME TypeInv, BooksInv, [Next]_vars
  PROVE  [Journal!Next]_(Journal!jvars)
<1> DEFINE staged  == IF pc = "insert" THEN trade ELSE NoRow
           account == IF pc = "log" THEN trade.balance - trade.profit ELSE balance
<1>0. TypeOK
  BY DEF TypeInv
<1>1. ASSUME UNCHANGED <<csvLog, db>>, staged' = staged, account' = account
      PROVE  UNCHANGED Journal!jvars
  BY <1>1 DEF Journal!jvars
<1>2. ASSUME UNCHANGED <<csvLog, db, balance>>,
             pc \notin {"log", "insert"}, pc' \notin {"log", "insert"}
      PROVE  UNCHANGED Journal!jvars
  BY <1>1, <1>2
<1>3. ASSUME NoProcess, UNCHANGED <<csvLog, db>>
      PROVE  Journal!Close
  BY <1>3 DEF NoProcess, Journal!Close
<1>4. CASE UNCHANGED vars
  BY <1>1, <1>4 DEF vars, disk, environment, engine
<1>5. CASE StartSession \/ NextCandle \/ StoreCandle \/ SkipCandle \/ OpenOrder
  BY <1>2, <1>5 DEF StartSession, NextCandle, StoreCandle, SkipCandle, OpenOrder, CanDecide,
     disk, environment, engine
<1>6. CASE AwaitCandle \/ StoreExitCandle
  BY <1>2, <1>6 DEF AwaitCandle, StoreExitCandle, environment, engine
<1>7. balance \in Int
  BY <1>0 DEF TypeOK
<1>8. CASE DeclineSignal
  <2>1. trade'.balance = balance /\ trade'.profit = 0
    BY <1>8 DEF DeclineSignal, Record
  <2> QED
    BY <1>1, <1>7, <1>8, <2>1 DEF DeclineSignal, CanDecide, disk, environment, engine
<1>9. CASE LeavePending
  <2>1. trade'.balance = balance /\ trade'.profit = 0
    BY <1>9 DEF LeavePending, Record
  <2> QED
    BY <1>1, <1>7, <1>9, <2>1 DEF LeavePending, disk, environment
<1>10. CASE ResolveOrder
  <2>1. PICK won \in BOOLEAN :
          trade' = Record(order.entry, IF won THEN "WON" ELSE "LOST",
                          Profit(order.amount, won), balance + Profit(order.amount, won))
    BY <1>10 DEF ResolveOrder
  <2>2. Profit(order.amount, won) \in Int
    BY <1>0, FieldTypes, ProfitType
  <2>3. trade'.balance - trade'.profit = balance
    BY <1>7, <2>1, <2>2 DEF Record
  <2> QED
    BY <1>1, <1>10, <2>3 DEF ResolveOrder, disk, environment
<1>11. CASE LogTrade
  <2>1. trade \in Row /\ trade.balance = balance /\ pc = "log" /\ pc' = "insert"
    BY <1>11, StagedRow DEF LogTrade, BooksInv
  <2>2. trade.balance \in Int /\ trade.profit \in Int
    BY <2>1 DEF Row
  <2>3. /\ staged = NoRow /\ staged' = trade /\ account = trade.balance - trade.profit
        /\ account' = balance /\ csvLog' = Append(csvLog, trade) /\ db' = db
    BY <1>11, <2>1 DEF LogTrade, environment, engine
  <2>4. trade.balance = account + trade.profit
    BY <2>2, <2>3
  <2> QED
    BY <2>1, <2>3, <2>4 DEF Journal!Next, Journal!Log
<1>12. CASE InsertTrade
  <2>1. staged # NoRow
    BY <1>12, StagedRow DEF InsertTrade
  <2> QED
    BY <1>12, <2>1 DEF InsertTrade, environment, engine, Journal!Next, Journal!Store
<1>13. CASE FinishSession \/ Crash \/ CrashInCursorWrite
  BY <1>3, <1>13 DEF FinishSession, Crash, CrashInCursorWrite, LoseProcess, Journal!Next
<1>14. CASE KillOn \/ KillOff \/ ResetCursor
  BY <1>1, <1>14 DEF KillOn, KillOff, ResetCursor, disk, engine
<1> QED
  BY <1>4, <1>5, <1>6, <1>8, <1>9, <1>10, <1>11, <1>12, <1>13, <1>14 DEF Next, EngineStep

\* The CSV log and the table of any run are a journal: the log is written ahead,
\* rows chain the session's balance, and only a session's last row may be lost.
THEOREM JournalRefined == Spec => StoresImplementJournal
<1>1. Init => Journal!Init
  BY DEF Init, Journal!Init
<1> QED
  BY <1>1, JournalStep, TypeInvariance, BooksInvariance, PTL
  DEF Spec, StoresImplementJournal, Journal!Spec

-----------------------------------------------------------------------------
(* Data windows                                                            *)

\* The window a running session was planned to consume, in its feed's terms.
Planned == <<feed.start, feed.start + feed.limit - 1>>

\* WindowsDistinct, with what the feed of a running session has done so far: it
\* stays inside its planned window, which no completed session used.
WindowInv ==
  /\ WindowsDistinct
  /\ pc = "idle" => steps = 0
  /\ pc # "idle" =>
       /\ feed.cursor = feed.start + feed.taken
       /\ feed.limit >= 1 /\ feed.start + feed.limit <= Total
       /\ feed.taken <= feed.limit /\ steps <= feed.taken
       /\ \A i \in 1..Len(windows) : windows[i] # Planned

\* Every step keeps it: the loop only ends with the planned window consumed.
LEMMA WindowStep ==
  ASSUME TypeInv, WindowInv, [Next]_vars
  PROVE  WindowInv'
<1>0. TypeOK
  BY DEF TypeInv
<1>1. ASSUME UNCHANGED windows,
             pc' # "idle" => pc # "idle" /\ UNCHANGED <<feed, steps>>,
             pc' = "idle" => steps' = 0 \/ (pc = "idle" /\ steps' = steps)
      PROVE  WindowInv'
  BY <1>1 DEF WindowInv, WindowsDistinct, Planned
<1>2. ASSUME TakeCandle, pc # "idle", pc' # "idle", UNCHANGED windows, steps' \in {steps, steps + 1}
      PROVE  WindowInv'
  <2>1. feed \in FeedState /\ feed.cursor \in 0..(Total - 1)
    <3>1. feed \in FeedState /\ feed.cursor \in 0..Total /\ Total \in Nat
      BY <1>0, FieldTypes, SessionAssumption DEF TypeOK
    <3> QED
      BY <1>2, <3>1 DEF TakeCandle, HasNext
  <2>2. /\ feed'.cursor = feed.cursor + 1 /\ feed'.taken = feed.taken + 1
        /\ feed'.start = feed.start /\ feed'.limit = feed.limit
    BY <1>2, <2>1, TakenCandle DEF TakeCandle
  <2>3. feed.taken < feed.limit
    BY <1>2 DEF TakeCandle, HasNext
  <2>4. /\ feed.start \in Nat /\ feed.taken \in Nat /\ feed.limit \in Nat
        /\ feed.cursor \in Nat /\ steps \in Nat
    BY <1>0, <2>1, FieldTypes DEF TypeOK
  <2>5. Planned' = Planned
    BY <2>2 DEF Planned
  <2> QED
    BY <1>2, <2>2, <2>3, <2>4, <2>5, SMTT(20) DEF WindowInv, WindowsDistinct
<1>3. CASE UNCHANGED vars
  BY <1>1, <1>3 DEF vars, disk, environment, engine
<1>4. CASE StartSession
  <2>1. /\ feed'.start = NextIndex /\ feed'.cursor = NextIndex
        /\ feed'.taken = 0 /\ feed'.limit = StepLimit
        /\ windows' = windows /\ steps' = steps
    BY <1>4 DEF StartSession, disk
  <2>2. NextIndex \in Nat /\ NextIndex < Total /\ Total \in Nat /\ LiveMaxSteps \in Nat \ {0}
    BY <1>0, <1>4, FeedTypes, SessionAssumption DEF StartSession
  <2>3. StepLimit \in Nat /\ StepLimit >= 1 /\ NextIndex + StepLimit <= Total
    BY <2>2 DEF StepLimit, Min2, Max2
  <2>4. PlannedWindow = Planned'
    <3>1. Min2(Total - 1, NextIndex + StepLimit - 1) = NextIndex + StepLimit - 1
      BY <2>2, <2>3 DEF Min2
    <3> QED
      BY <2>1, <3>1 DEF PlannedWindow, Planned
  <2>5. \A i \in 1..Len(windows) : windows[i] # Planned'
    BY <1>4, <2>4 DEF StartSession, WindowUsed
  <2>6. steps = 0
    BY <1>4 DEF StartSession, WindowInv
  <2> QED
    BY <2>1, <2>2, <2>3, <2>5, <2>6 DEF WindowInv, WindowsDistinct
<1>5. CASE NextCandle
  BY <1>2, <1>5 DEF NextCandle
<1>6. CASE AwaitCandle
  BY <1>2, <1>6 DEF AwaitCandle
<1>7. CASE FinishSession
  <2>1. /\ feed.start \in Nat /\ feed.taken \in Nat /\ feed.limit \in Nat
        /\ feed.cursor \in Nat /\ steps \in Nat /\ Total \in Nat
    BY <1>0, FieldTypes, SessionAssumption DEF TypeOK
  <2>2. pc = "loop" /\ pc' = "idle" /\ steps' = 0
    BY <1>7 DEF FinishSession, NoProcess
  <2>3. feed.taken = feed.limit
    BY <1>7, <2>1, <2>2 DEF FinishSession, WindowInv, HasNext
  <2>4. feed.cursor > feed.start /\ feed.cursor - 1 = feed.start + feed.limit - 1
    BY <2>1, <2>2, <2>3 DEF WindowInv
  <2>5. windows' = Append(windows, Planned)
    BY <1>7, <2>4 DEF FinishSession, Planned
  <2>6. Planned \in Candle \X Candle /\ windows \in Seq(Candle \X Candle)
    <3>1. feed.start \in Candle /\ feed.start + feed.limit - 1 \in Candle
      BY <2>1, <2>2 DEF WindowInv, Candle
    <3> QED
      BY <1>0, <3>1 DEF TypeOK, Planned
  <2>7. /\ Len(windows') = Len(windows) + 1 /\ Len(windows) \in Nat
        /\ windows'[Len(windows) + 1] = Planned
        /\ \A i \in 1..Len(windows) : windows'[i] = windows[i]
    BY <2>5, <2>6, LastOfAppend
  <2>8. ASSUME NEW i \in 1..Len(windows'), NEW j \in 1..Len(windows'), i < j
        PROVE  windows'[i] # windows'[j]
    <3>1. i \in 1..Len(windows) /\ (j \in 1..Len(windows) \/ j = Len(windows) + 1)
      BY <2>7, <2>8
    <3>2. CASE j \in 1..Len(windows)
      BY <2>7, <2>8, <3>1, <3>2 DEF WindowInv, WindowsDistinct
    <3>3. CASE j = Len(windows) + 1
      BY <2>2, <2>7, <3>1, <3>3 DEF WindowInv
    <3> QED
      BY <3>1, <3>2, <3>3
  <2> QED
    BY <2>2, <2>8 DEF WindowInv, WindowsDistinct
<1>8. CASE StoreCandle \/ SkipCandle \/ DeclineSignal \/ OpenOrder \/ StoreExitCandle
  BY <1>1, <1>8 DEF StoreCandle, SkipCandle, DeclineSignal, OpenOrder, StoreExitCandle,
     CanDecide, disk, engine
<1>9. CASE LeavePending \/ ResolveOrder \/ LogTrade \/ InsertTrade
  BY <1>1, <1>9 DEF LeavePending, ResolveOrder, LogTrade, InsertTrade, disk, engine
<1>10. CASE Crash \/ CrashInCursorWrite
  BY <1>1, <1>10 DEF Crash, CrashInCursorWrite, LoseProcess, NoProcess
<1>11. CASE KillOn \/ KillOff \/ ResetCursor
  BY <1>1, <1>11 DEF KillOn, KillOff, ResetCursor, disk, engine
<1> QED
  BY <1>3, <1>4, <1>5, <1>6, <1>7, <1>8, <1>9, <1>10, <1>11 DEF Next, EngineStep

\* No two completed sessions used the same data window, for any candle file, any
\* number of sessions, crashes, torn cursor writes and cursor resets.
THEOREM NoWindowTwice == Spec => []WindowsDistinct
<1>1. Init => WindowInv
  BY DEF Init, WindowInv, WindowsDistinct
<1>2. WindowInv => WindowsDistinct
  BY DEF WindowInv
<1> QED
  BY <1>1, <1>2, WindowStep, TypeInvariance, PTL DEF Spec

-----------------------------------------------------------------------------
(* Collected candles                                                       *)

\* The last candle that must have been collected by now, but for the crashes.
LastStored ==
  CASE pc = "idle" -> cursorFile
    [] pc \in {"store", "storeExit"} -> feed.cursor - 2
    [] OTHER -> feed.cursor - 1

\* The candles up to n that were never collected.
Holes(n) == (0..n) \ collected

\* HolesOnlyFromCrashes, with what a running session relies on: it has not died,
\* and the cursor file names its last candle unless a reset removed it.
HolesInv ==
  /\ Cardinality(Holes(LastStored)) <= Cardinality(dead)
  /\ pc # "idle" =>
       /\ sessions \notin dead
       /\ cursorFile \in {-1, feed.cursor - 1}

\* Holes can be counted, and one more candle is one more hole at most.
LEMMA HolesCount ==
  ASSUME NEW n \in Int
  PROVE  /\ Cardinality(Holes(n)) \in Nat
         /\ n < 0 => Cardinality(Holes(n)) = 0
         /\ Cardinality(Holes(n + 1)) <= Cardinality(Holes(n)) + 1
<1>1. \A m \in Int : IsFiniteSet(Holes(m))
  <2> TAKE m \in Int
  <2>1. IsFiniteSet(0..m)
    BY FS_Interval
  <2> QED
    BY <2>1, FS_Subset DEF Holes
<1>2. IsFiniteSet(Holes(n)) /\ IsFiniteSet(Holes(n + 1))
  BY <1>1
<1>3. Holes(n + 1) \subseteq Holes(n) \cup {n + 1}
  BY DEF Holes
<1>4. /\ IsFiniteSet(Holes(n) \cup {n + 1})
      /\ Cardinality(Holes(n) \cup {n + 1}) <= Cardinality(Holes(n)) + 1
  <2> DEFINE H == Holes(n)   c == n + 1
  <2>1. IsFiniteSet(H)
    BY <1>2
  <2> HIDE DEF H, c
  <2>2. Cardinality(H) \in Nat
    BY <2>1, FS_CardinalityType
  <2>3. /\ IsFiniteSet(H \cup {c})
        /\ Cardinality(H \cup {c}) = IF c \in H THEN Cardinality(H) ELSE Cardinality(H) + 1
    BY <2>1, FS_AddElement
  <2>4. IsFiniteSet(H \cup {c}) /\ Cardinality(H \cup {c}) <= Cardinality(H) + 1
    BY <2>2, <2>3
  <2> QED
    BY <2>4 DEF H, c
<1>5. Cardinality(Holes(n + 1)) <= Cardinality(Holes(n) \cup {n + 1})
  BY <1>3, <1>4, FS_Subset
<1>6. n < 0 => Cardinality(Holes(n)) = 0
  <2>1. n < 0 => Holes(n) = {}
    BY DEF Holes
  <2> QED
    BY <2>1, FS_EmptySet
<1>7. /\ Cardinality(Holes(n)) \in Nat /\ Cardinality(Holes(n + 1)) \in Nat
      /\ Cardinality(Holes(n) \cup {n + 1}) \in Nat
  BY <1>2, <1>4, FS_CardinalityType
<1> QED
  BY <1>4, <1>5, <1>6, <1>7

\* Sessions that died are counted, and a running session that dies is one more.
LEMMA DeadCount ==
  ASSUME TypeOK
  PROVE  /\ Cardinality(dead) \in Nat
         /\ sessions \notin dead =>
              Cardinality(dead \cup {sessions}) = Cardinality(dead) + 1
<1>1. IsFiniteSet(1..sessions)
  BY FS_Interval DEF TypeOK
<1>2. IsFiniteSet(dead)
  BY <1>1, FS_Subset DEF TypeOK
<1> QED
  BY <1>2, FS_CardinalityType, FS_AddElement

\* Every step keeps it: between the cursor write and append_candle there is one
\* candle, and only a process that dies there leaves it a hole.
LEMMA HolesStep ==
  ASSUME TypeInv, HolesInv, [Next]_vars
  PROVE  HolesInv'
<1>0. TypeOK /\ ProcessOK
  BY DEF TypeInv
<1>1. feed.cursor \in Nat /\ cursorFile \in Int /\ cursorFile >= -1 /\ LastStored \in Int
  <2>1. feed.cursor \in Nat /\ cursorFile \in Int /\ cursorFile >= -1
    BY <1>0, FieldTypes, SessionAssumption DEF TypeOK
  <2> QED
    BY <2>1 DEF LastStored
<1>2. ASSUME UNCHANGED <<collected, cursorFile, dead, sessions, feed>>,
             \/ pc' = pc
             \/ /\ pc \notin {"idle", "store", "storeExit"}
                /\ pc' \notin {"idle", "store", "storeExit"}
      PROVE  HolesInv'
  BY <1>2 DEF HolesInv, LastStored, Holes
<1>3. ASSUME TakeCandle, pc \in {"loop", "await"}, pc' \in {"store", "storeExit"},
             UNCHANGED <<collected, dead, sessions>>
      PROVE  HolesInv'
  <2>1. feed \in FeedState /\ feed.cursor \in 0..(Total - 1)
    <3>1. feed \in FeedState /\ feed.cursor \in 0..Total /\ Total \in Nat
      BY <1>0, FieldTypes, SessionAssumption DEF TypeOK
    <3> QED
      BY <1>3, <3>1 DEF TakeCandle, HasNext
  <2>2. feed'.cursor = feed.cursor + 1 /\ cursorFile' = feed.cursor
    BY <1>3, <2>1, TakenCandle DEF TakeCandle
  <2>3. LastStored' = LastStored
    BY <1>1, <1>3, <2>2 DEF LastStored
  <2>4. cursorFile' = feed'.cursor - 1
    BY <1>1, <2>2
  <2> QED
    BY <1>3, <2>3, <2>4 DEF HolesInv, Holes
<1>4. ASSUME pc \in {"store", "storeExit"}, pc' \in {"check", "await"}, Collect,
             UNCHANGED <<cursorFile, dead, sessions, feed>>
      PROVE  HolesInv'
  <2>1. LastStored = feed.cursor - 2 /\ LastStored' = feed.cursor - 1
    BY <1>4 DEF LastStored
  <2>2. Holes(LastStored)' = Holes(LastStored)
    <3>1. (0..(feed.cursor - 1)) \ (collected \cup {feed.cursor - 1})
            = (0..(feed.cursor - 2)) \ collected
      BY <1>1
    <3> QED
      BY <1>4, <2>1, <3>1 DEF Holes, Collect
  <2> QED
    BY <1>4, <2>2 DEF HolesInv
<1>5. ASSUME LoseProcess, cursorFile' \in {-1, cursorFile}
      PROVE  HolesInv'
  <2>1. pc' = "idle" /\ LastStored' = cursorFile' /\ collected' = collected
    BY <1>5 DEF LoseProcess, NoProcess, LastStored
  <2>2. Cardinality(dead') = Cardinality(dead) + 1 /\ Cardinality(dead) \in Nat
    BY <1>0, <1>5, DeadCount DEF LoseProcess, HolesInv
  <2>3. cursorFile' \in {-1, LastStored, LastStored + 1}
    BY <1>1, <1>5 DEF LoseProcess, LastStored, HolesInv
  <2>4. /\ Cardinality(Holes(LastStored)) \in Nat /\ Cardinality(Holes(-1)) = 0
        /\ Cardinality(Holes(LastStored + 1)) <= Cardinality(Holes(LastStored)) + 1
        /\ Cardinality(Holes(LastStored + 1)) \in Nat
    <3>1. -1 \in Int /\ LastStored + 1 \in Int
      BY <1>1
    <3> QED
      BY <1>1, <3>1, HolesCount
  <2>5. Cardinality(Holes(cursorFile')) <= Cardinality(dead')
    BY <2>2, <2>3, <2>4 DEF HolesInv
  <2>6. Holes(LastStored)' = Holes(cursorFile')
    BY <2>1 DEF Holes
  <2> QED
    BY <2>1, <2>5, <2>6 DEF HolesInv
<1>6. CASE UNCHANGED vars
  BY <1>2, <1>6 DEF vars, disk, environment, engine
<1>7. CASE StartSession
  <2>1. /\ pc = "idle" /\ pc' = "loop" /\ feed'.cursor = cursorFile + 1
        /\ UNCHANGED <<collected, cursorFile, dead>> /\ sessions' = sessions + 1
    BY <1>7 DEF StartSession, disk, NextIndex
  <2>2. LastStored = cursorFile /\ LastStored' = cursorFile /\ cursorFile' = feed'.cursor - 1
    BY <1>1, <2>1 DEF LastStored
  <2>3. sessions' \notin dead'
    BY <1>0, <2>1 DEF TypeOK
  <2> QED
    BY <2>1, <2>2, <2>3 DEF HolesInv, Holes
<1>8. CASE NextCandle
  BY <1>3, <1>8 DEF NextCandle, environment
<1>9. CASE AwaitCandle
  BY <1>3, <1>9 DEF AwaitCandle, environment
<1>10. CASE StoreCandle
  BY <1>4, <1>10 DEF StoreCandle, environment, engine
<1>11. CASE StoreExitCandle
  BY <1>4, <1>11 DEF StoreExitCandle, environment, engine
<1>12. CASE SkipCandle \/ DeclineSignal \/ OpenOrder
  BY <1>2, <1>12 DEF SkipCandle, DeclineSignal, OpenOrder, CanDecide, disk, environment, engine
<1>13. CASE LeavePending \/ ResolveOrder \/ LogTrade \/ InsertTrade
  BY <1>2, <1>13 DEF LeavePending, ResolveOrder, LogTrade, InsertTrade, disk, environment, engine
<1>14. CASE FinishSession
  <2>1. /\ pc = "loop" /\ pc' = "idle" /\ UNCHANGED <<collected, cursorFile, dead>>
    BY <1>14 DEF FinishSession, NoProcess, environment
  <2>2. LastStored' = cursorFile /\ LastStored = feed.cursor - 1 /\ cursorFile \in {-1, feed.cursor - 1}
    BY <2>1 DEF LastStored, HolesInv
  <2>3. Cardinality(Holes(-1)) = 0 /\ Cardinality(dead) \in Nat
    BY <1>0, HolesCount, DeadCount
  <2>4. Cardinality(Holes(cursorFile)) <= Cardinality(dead)
    BY <2>2, <2>3 DEF HolesInv
  <2> QED
    BY <2>1, <2>2, <2>4 DEF HolesInv, Holes
<1>15. CASE Crash \/ CrashInCursorWrite
  BY <1>5, <1>15 DEF Crash, CrashInCursorWrite
<1>16. CASE KillOn \/ KillOff
  BY <1>2, <1>16 DEF KillOn, KillOff, disk, engine
<1>17. CASE ResetCursor
  <2>1. pc' = pc /\ feed' = feed /\ UNCHANGED <<collected, dead, sessions>> /\ cursorFile' = -1
    BY <1>17 DEF ResetCursor, engine
  <2>2. Cardinality(Holes(-1)) = 0 /\ Cardinality(dead) \in Nat
    BY <1>0, HolesCount, DeadCount
  <2>3. CASE pc = "idle"
    <3>1. LastStored' = -1
      BY <2>1, <2>3 DEF LastStored
    <3> QED
      BY <2>1, <2>2, <2>3, <3>1 DEF HolesInv, Holes
  <2>4. CASE pc # "idle"
    <3>1. LastStored' = LastStored
      BY <2>1, <2>4 DEF LastStored
    <3> QED
      BY <2>1, <2>4, <3>1 DEF HolesInv, Holes
  <2> QED
    BY <2>3, <2>4
<1> QED
  BY <1>6, <1>7, <1>8, <1>9, <1>10, <1>11, <1>12, <1>13, <1>14, <1>15, <1>16, <1>17
  DEF Next, EngineStep

\* The inductive form: all but the last candle taken is collected or was lost to
\* one of the crashes, and the running session has not died.
THEOREM HolesInvariance == Spec => []HolesInv
<1>1. Init => HolesInv
  <2> SUFFICES ASSUME Init PROVE HolesInv
    OBVIOUS
  <2>1. LastStored = -1 /\ pc = "idle" /\ dead = {}
    BY DEF Init, LastStored
  <2>2. Cardinality(Holes(-1)) = 0 /\ Cardinality({}) = 0
    BY HolesCount, FS_EmptySet
  <2> QED
    BY <2>1, <2>2 DEF HolesInv
<1> QED
  BY <1>1, HolesStep, TypeInvariance, PTL DEF Spec

\* Every candle up to the cursor was collected, but for one per process that died
\* between the cursor write and append_candle, for any crashes and resets.
THEOREM HolesCorrect == Spec => []HolesOnlyFromCrashes
<1>1. TypeInv /\ HolesInv => HolesOnlyFromCrashes
  <2> SUFFICES ASSUME TypeInv, HolesInv PROVE HolesOnlyFromCrashes
    OBVIOUS
  <2>1. TypeOK /\ feed.cursor \in Nat /\ cursorFile \in Int
    <3>1. TypeOK
      BY DEF TypeInv
    <3>2. feed.cursor \in Nat
      BY <3>1, FieldTypes, SessionAssumption DEF TypeOK
    <3>3. cursorFile \in Int
      BY <3>1, SessionAssumption DEF TypeOK
    <3> QED
      BY <3>1, <3>2, <3>3
  <2>2. LastStored \in Int /\ -1 \in Int
    BY <2>1 DEF LastStored
  <2>3. /\ Cardinality(dead) \in Nat /\ Cardinality(Holes(-1)) = 0
        /\ Cardinality(Holes(LastStored + 1)) <= Cardinality(Holes(LastStored)) + 1
    BY <2>1, <2>2, HolesCount, DeadCount
  <2>4. /\ Cardinality(Holes(LastStored + 1)) \in Nat
        /\ Cardinality(Holes(LastStored)) \in Nat
    <3>1. LastStored + 1 \in Int
      BY <2>2
    <3> QED
      BY <2>2, <3>1, HolesCount
  <2>5. HolesOnlyFromCrashes <=> Cardinality(Holes(cursorFile))
           <= Cardinality(dead) + (IF pc \in {"store", "storeExit"} THEN 1 ELSE 0)
    BY DEF HolesOnlyFromCrashes, Holes
  <2>6. CASE pc \in {"store", "storeExit"}
    <3>1. cursorFile \in {-1, LastStored + 1}
      BY <2>1, <2>6 DEF LastStored, HolesInv
    <3> QED
      BY <2>3, <2>4, <2>5, <2>6, <3>1 DEF HolesInv
  <2>7. CASE pc \notin {"store", "storeExit"}
    <3>1. cursorFile \in {-1, LastStored}
      BY <2>1, <2>7 DEF LastStored, HolesInv
    <3> QED
      BY <2>3, <2>4, <2>5, <2>7, <3>1 DEF HolesInv
  <2> QED
    BY <2>6, <2>7
<1> QED
  BY <1>1, HolesInvariance, TypeInvariance, PTL

-----------------------------------------------------------------------------
(* Losing streaks                                                          *)

\* Every order of session s among the rows j..(i - 1) was lost.
LostRun(s, j, i) == \A k \in Orders(s, j, i) : csvLog[k].result = "LOST"

\* The log ends with at most b lost orders in a row of the last session.
Trailing(b) ==
  \A j \in 1..(Len(csvLog) + 1) :
    LostRun(sessions, j, Len(csvLog) + 1) => Cardinality(Orders(sessions, j, Len(csvLog) + 1)) <= b

\* LossStreakEndsTrading, with what RiskManager.losses says of the log's end: it
\* counts at least the losses logged last, and the one about to be logged.
StreakInv ==
  /\ LossStreakEndsTrading
  /\ pc \in {"await", "storeExit"} => order.amount > 0
  /\ pc \notin {"idle", "log"} => Trailing(risk.losses)
  /\ pc = "log" =>
       /\ trade.result \in {"WON", "LOST", "PENDING"} => Trailing(MaxConsecutiveLosses - 1)
       /\ trade.result = "LOST" => Trailing(risk.losses - 1)
       /\ trade.result \notin {"WON", "LOST", "PENDING"} => Trailing(risk.losses)

\* Orders are rows of the log, and can be counted.
LEMMA OrdersCount ==
  ASSUME NEW s, NEW j \in Int, NEW i \in Int
  PROVE  /\ IsFiniteSet(Orders(s, j, i)) /\ Cardinality(Orders(s, j, i)) \in Nat
         /\ i <= j => Orders(s, j, i) = {} /\ Cardinality(Orders(s, j, i)) = 0
<1>1. IsFiniteSet(j..(i - 1))
  BY FS_Interval
<1>2. Orders(s, j, i) \subseteq j..(i - 1)
  BY DEF Orders
<1>3. IsFiniteSet(Orders(s, j, i))
  BY <1>1, <1>2, FS_Subset
<1>4. Cardinality(Orders(s, j, i)) \in Nat
  BY <1>3, FS_CardinalityType
<1>5. i <= j => Orders(s, j, i) = {}
  BY DEF Orders
<1> QED
  BY <1>3, <1>4, <1>5, FS_EmptySet

\* A logged row leaves the runs before it alone.
LEMMA OrdersKept ==
  ASSUME NEW row \in Row, csvLog \in Seq(Row), csvLog' = Append(csvLog, row)
  PROVE  /\ \A s \in Nat, j \in Nat \ {0}, i \in 1..(Len(csvLog) + 1) :
              /\ Orders(s, j, i)' = Orders(s, j, i)
              /\ LostRun(s, j, i)' <=> LostRun(s, j, i)
         /\ \A s \in Nat, j \in 1..(Len(csvLog) + 1) :
              Orders(s, j, Len(csvLog) + 1)' =
                IF row.session = s /\ row.result \in {"WON", "LOST", "PENDING"}
                THEN Orders(s, j, Len(csvLog) + 1) \cup {Len(csvLog) + 1}
                ELSE Orders(s, j, Len(csvLog) + 1)
<1>1. /\ Len(csvLog') = Len(csvLog) + 1 /\ Len(csvLog) \in Nat
      /\ csvLog'[Len(csvLog) + 1] = row
      /\ \A i \in 1..Len(csvLog) : csvLog'[i] = csvLog[i]
  BY LastOfAppend
<1>2. ASSUME NEW s \in Nat, NEW j \in Nat \ {0}, NEW i \in 1..(Len(csvLog) + 1)
      PROVE  /\ Orders(s, j, i)' = Orders(s, j, i)
             /\ LostRun(s, j, i)' <=> LostRun(s, j, i)
  <2>1. \A k \in j..(i - 1) : csvLog'[k] = csvLog[k]
    BY <1>1
  <2>2. Orders(s, j, i)' = Orders(s, j, i)
    BY <2>1 DEF Orders
  <2>3. Orders(s, j, i) \subseteq j..(i - 1)
    BY DEF Orders
  <2> QED
    BY <2>1, <2>2, <2>3 DEF LostRun
<1>3. ASSUME NEW s \in Nat, NEW j \in 1..(Len(csvLog) + 1)
      PROVE  Orders(s, j, Len(csvLog) + 1)' =
               IF row.session = s /\ row.result \in {"WON", "LOST", "PENDING"}
               THEN Orders(s, j, Len(csvLog) + 1) \cup {Len(csvLog) + 1}
               ELSE Orders(s, j, Len(csvLog) + 1)
  <2> DEFINE n == Len(csvLog)   o(r) == r.session = s /\ r.result \in {"WON", "LOST", "PENDING"}
  <2>1. {k \in j..(n + 1) : o(csvLog'[k])}
          = {k \in j..n : o(csvLog[k])} \cup (IF o(row) THEN {n + 1} ELSE {})
    <3>1. \A k \in j..(n + 1) : k \in j..n \/ k = n + 1
      BY <1>1
    <3>2. \A k \in j..n : k \in j..(n + 1) /\ csvLog'[k] = csvLog[k]
      BY <1>1
    <3>3. n + 1 \in j..(n + 1) /\ csvLog'[n + 1] = row
      BY <1>1
    <3>4. \A k \in j..n : k # n + 1
      BY <1>1
    <3> HIDE DEF n, o
    <3> QED
      BY <3>1, <3>2, <3>3, <3>4
  <2>2. Len(csvLog') + 1 - 1 = n + 1 /\ n + 1 - 1 = n
    BY <1>1
  <2>3. Orders(s, j, n + 1)' = {k \in j..(n + 1) : o(csvLog'[k])}
    BY <2>2 DEF Orders
  <2>4. Orders(s, j, n + 1) = {k \in j..n : o(csvLog[k])}
    BY <2>2 DEF Orders
  <2>5. Orders(s, j, n + 1)' = Orders(s, j, n + 1) \cup (IF o(row) THEN {n + 1} ELSE {})
    BY <2>1, <2>3, <2>4
  <2>6. CASE o(row)
    BY <2>5, <2>6
  <2>7. CASE ~o(row)
    BY <2>5, <2>7
  <2> QED
    BY <2>6, <2>7
<1> QED
  BY <1>2, <1>3

\* Logging a row keeps every run of losses below the limit.
LEMMA StreakLogged ==
  ASSUME TypeInv, BooksInv, StreakInv, LogTrade
  PROVE  StreakInv'
<1> DEFINE n == Len(csvLog)
<1>1. /\ trade \in Row /\ csvLog \in Seq(Row) /\ csvLog' = Append(csvLog, trade)
      /\ n \in Nat /\ sessions \in Nat /\ risk.losses \in Nat /\ MaxConsecutiveLosses \in Nat
  BY RiskAssumption DEF LogTrade, TypeInv, TypeOK, RiskState
<1>2. /\ Len(csvLog') = n + 1 /\ csvLog'[n + 1] = trade
      /\ \A i \in 1..n : csvLog'[i] = csvLog[i]
  BY <1>1, LastOfAppend
<1>3. /\ pc = "log" /\ pc' = "insert" /\ sessions' = sessions /\ risk' = risk /\ order' = order
      /\ trade.session = sessions
  BY DEF LogTrade, environment, engine, BooksInv
<1>4. /\ \A s \in Nat, j \in Nat \ {0}, i \in 1..(n + 1) :
           /\ Orders(s, j, i)' = Orders(s, j, i)
           /\ LostRun(s, j, i)' <=> LostRun(s, j, i)
      /\ \A s \in Nat, j \in 1..(n + 1) :
           Orders(s, j, n + 1)' =
             IF trade.session = s /\ trade.result \in {"WON", "LOST", "PENDING"}
             THEN Orders(s, j, n + 1) \cup {n + 1}
             ELSE Orders(s, j, n + 1)
  BY <1>1, OrdersKept
<1>5. LossStreakEndsTrading'
  <2> SUFFICES ASSUME NEW s \in 1..sessions, NEW i \in 1..(n + 1), NEW j \in 1..(n + 1),
                      csvLog'[i].session = s, i \in Orders(s, j, i + 1)',
                      LostRun(s, j, i)'
               PROVE  Cardinality(Orders(s, j, i)') < MaxConsecutiveLosses
    BY <1>2, <1>3 DEF LossStreakEndsTrading, LostRun, RowsOf
  <2>1. /\ i \in j..i /\ csvLog'[i].result \in {"WON", "LOST", "PENDING"}
    <3>1. i + 1 - 1 = i
      BY <1>1
    <3> QED
      BY <3>1 DEF Orders
  <2>2. Orders(s, j, i)' = Orders(s, j, i) /\ LostRun(s, j, i)
    BY <1>1, <1>4
  <2>3. CASE i \in 1..n
    <3>1. j \in 1..n /\ i + 1 \in 1..(n + 1) /\ csvLog[i].session = s
      BY <1>1, <1>2, <2>1, <2>3
    <3>2. i \in Orders(s, j, i + 1)
      BY <1>1, <1>4, <3>1
    <3> QED
      BY <2>2, <2>3, <3>1, <3>2 DEF StreakInv, LossStreakEndsTrading, LostRun, RowsOf
  <2>4. CASE i = n + 1
    <3>1. trade.result \in {"WON", "LOST", "PENDING"} /\ s = sessions
      BY <1>2, <1>3, <2>1, <2>4
    <3>2. Trailing(MaxConsecutiveLosses - 1)
      BY <1>3, <3>1 DEF StreakInv
    <3>3. Cardinality(Orders(s, j, i)) <= MaxConsecutiveLosses - 1
      BY <2>2, <2>4, <3>1, <3>2 DEF Trailing
    <3>4. Cardinality(Orders(s, j, i)) \in Nat
      BY <1>1, OrdersCount
    <3> QED
      BY <1>1, <2>2, <3>3, <3>4
  <2> QED
    BY <1>1, <2>3, <2>4
<1>6. Trailing(risk.losses)'
  <2> SUFFICES ASSUME NEW j \in 1..(n + 2), LostRun(sessions, j, n + 1)'
               PROVE  Cardinality(Orders(sessions, j, n + 1)') <= risk.losses
    <3>1. Len(csvLog') + 1 = n + 2
      BY <1>1, <1>2
    <3> QED
      BY <1>3, <3>1 DEF Trailing
  <2>1. PICK s \in Nat, m \in Nat : s = sessions /\ m = n + 1
    BY <1>1
  <2>2. j \in Nat \ {0} /\ m \in 1..(n + 1) /\ Len(csvLog') + 1 = m + 1
    BY <1>1, <1>2, <2>1
  <2>3. LostRun(s, j, m + 1)' /\ Orders(sessions, j, n + 1)' = Orders(s, j, m + 1)'
    BY <1>3, <2>1, <2>2
  <2> SUFFICES Cardinality(Orders(s, j, m + 1)') <= risk.losses
    BY <2>3
  <2>4. CASE j = n + 2
    <3>1. m + 1 <= j /\ m + 1 \in Int /\ j \in Int
      BY <1>1, <2>1, <2>4
    <3>2. Orders(s, j, m + 1)' = {}
      BY <3>1 DEF Orders
    <3>3. Cardinality({}) = 0
      BY FS_EmptySet
    <3>4. risk.losses >= 0
      BY <1>1
    <3> QED
      BY <3>2, <3>3, <3>4
  <2>5. CASE j # n + 2
    <3>1. j \in 1..(n + 1)
      BY <1>1, <2>5
    <3>2. Orders(s, j, m + 1)' =
             IF trade.result \in {"WON", "LOST", "PENDING"}
             THEN Orders(s, j, m) \cup {m} ELSE Orders(s, j, m)
      BY <1>3, <1>4, <2>1, <2>3, <3>1
    <3>3. LostRun(s, j, m)
      <4>1. \A k \in Orders(s, j, m) : csvLog'[k].result = "LOST"
        BY <2>3, <3>2 DEF LostRun
      <4>2. \A k \in Orders(s, j, m) : csvLog'[k] = csvLog[k]
        BY <1>1, <1>2, <2>1, <2>2 DEF Orders
      <4> QED
        BY <4>1, <4>2 DEF LostRun
    <3>4. \A b : Trailing(b) => Cardinality(Orders(s, j, m)) <= b
      BY <2>1, <3>1, <3>3 DEF Trailing
    <3>5. CASE trade.result \in {"WON", "PENDING"}
      <4>1. m \in Orders(s, j, m + 1)' /\ csvLog'[m] = trade
        BY <1>2, <2>1, <3>2, <3>5
      <4> QED
        BY <2>3, <3>5, <4>1 DEF LostRun
    <3>6. CASE trade.result = "LOST"
      <4>1. Cardinality(Orders(s, j, m)) <= risk.losses - 1
        BY <1>3, <3>4, <3>6 DEF StreakInv
      <4>2. IsFiniteSet(Orders(s, j, m)) /\ Cardinality(Orders(s, j, m)) \in Nat
        BY <2>2, OrdersCount
      <4>3. Cardinality(Orders(s, j, m) \cup {m}) <= Cardinality(Orders(s, j, m)) + 1
        <5> DEFINE O == Orders(s, j, m)
        <5>1. IsFiniteSet(O) /\ Cardinality(O) \in Nat
          BY <4>2
        <5> HIDE DEF O
        <5>2. Cardinality(O \cup {m}) = IF m \in O THEN Cardinality(O) ELSE Cardinality(O) + 1
          BY <5>1, FS_AddElement
        <5>3. Cardinality(O \cup {m}) <= Cardinality(O) + 1
          BY <5>1, <5>2
        <5> QED
          BY <5>3 DEF O
      <4>4. Cardinality(Orders(s, j, m) \cup {m}) \in Nat
        BY <4>2, FS_AddElement, FS_CardinalityType
      <4>5. Cardinality(Orders(s, j, m) \cup {m}) <= risk.losses
        BY <1>1, <4>1, <4>2, <4>3, <4>4
      <4> QED
        BY <3>2, <3>6, <4>5
    <3>7. CASE trade.result \notin {"WON", "LOST", "PENDING"}
      BY <1>3, <2>3, <3>2, <3>4, <3>7 DEF StreakInv
    <3> QED
      BY <3>5, <3>6, <3>7
  <2> QED
    BY <2>4, <2>5
<1> QED
  BY <1>3, <1>5, <1>6 DEF StreakInv

\* Every step keeps the streaks below the limit: an order is opened only below
\* it, a loss is counted before its row is logged, a pending row never is.
LEMMA StreakStep ==
  ASSUME TypeInv, BooksInv, LossInv, StreakInv, [Next]_vars
  PROVE  StreakInv'
<1>0. TypeOK
  BY DEF TypeInv
<1>1. risk \in RiskState /\ risk.losses \in Nat /\ MaxConsecutiveLosses \in Nat /\ sessions \in Nat
  BY <1>0, RiskAssumption DEF TypeOK, RiskState
<1>2. ASSUME UNCHANGED <<csvLog, sessions>>
      PROVE  /\ LossStreakEndsTrading'
             /\ \A b : Trailing(b)' <=> Trailing(b)
  <2>1. csvLog' = csvLog /\ sessions' = sessions
    BY <1>2
  <2>2. \A s, j, i : Orders(s, j, i)' = Orders(s, j, i)
    BY <2>1 DEF Orders
  <2>3. \A s : RowsOf(csvLog, s)' = RowsOf(csvLog, s)
    BY <2>1 DEF RowsOf
  <2>4. \A s, j, i : LostRun(s, j, i)' <=> LostRun(s, j, i)
    BY <2>1, <2>2 DEF LostRun
  <2>5. \A b : Trailing(b)' <=> Trailing(b)
    BY <2>1, <2>2, <2>4 DEF Trailing
  <2>6. LossStreakEndsTrading'
    BY <2>1, <2>2, <2>3 DEF StreakInv, LossStreakEndsTrading
  <2> QED
    BY <2>5, <2>6
<1>3. ASSUME UNCHANGED <<csvLog, sessions, risk>>,
             \/ pc' = pc /\ trade' = trade
             \/ pc \notin {"idle", "log"} /\ pc' \notin {"idle", "log"}
             \/ pc' = "idle",
             pc' \in {"await", "storeExit"} => order'.amount > 0
      PROVE  StreakInv'
  BY <1>2, <1>3 DEF StreakInv
<1>4. ASSUME UNCHANGED <<csvLog, sessions>>, NoProcess
      PROVE  StreakInv'
  BY <1>2, <1>4 DEF StreakInv, NoProcess
<1>5. CASE UNCHANGED vars
  BY <1>3, <1>5 DEF vars, disk, environment, engine, StreakInv
<1>6. CASE StartSession
  <2>1. /\ pc = "idle" /\ pc' = "loop" /\ csvLog' = csvLog /\ sessions' = sessions + 1
        /\ risk' = risk
    BY <1>6 DEF StartSession, disk
  <2>2. csvLog \in Seq(Row) /\ Len(csvLog) \in Nat
    BY <1>0 DEF TypeOK
  <2>3. \A i \in 1..Len(csvLog) : csvLog[i].session # sessions + 1
    <3>1. \A row \in Row : row.session \in Nat
      BY DEF Row
    <3>2. \A i \in 1..Len(csvLog) : csvLog[i].session <= sessions /\ csvLog[i].session \in Nat
      BY <2>2, <3>1 DEF BooksInv
    <3> QED
      BY <1>1, <3>2
  <2>4. LossStreakEndsTrading'
    <3>1. \A s \in 1..(sessions + 1) : s \in 1..sessions \/ s = sessions + 1
      BY <1>1
    <3>2. RowsOf(csvLog, sessions + 1) = {}
      BY <2>3 DEF RowsOf
    <3>3. \A s, j, i : Orders(s, j, i)' = Orders(s, j, i)
      BY <2>1 DEF Orders
    <3>4. \A s : RowsOf(csvLog, s)' = RowsOf(csvLog, s)
      BY <2>1 DEF RowsOf
    <3>5. LossStreakEndsTrading
      BY DEF StreakInv
    <3> SUFFICES ASSUME NEW s \in 1..(sessions + 1), NEW i \in RowsOf(csvLog, s),
                        NEW j \in 1..Len(csvLog), i \in Orders(s, j, i + 1),
                        \A k \in Orders(s, j, i) : csvLog[k].result = "LOST"
                 PROVE  Cardinality(Orders(s, j, i)) < MaxConsecutiveLosses
      BY <2>1, <3>3, <3>4 DEF LossStreakEndsTrading
    <3>6. s \in 1..sessions
      BY <3>1, <3>2
    <3> QED
      BY <3>5, <3>6 DEF LossStreakEndsTrading
  <2>5. Trailing(risk.losses)'
    <3> SUFFICES ASSUME NEW j \in 1..(Len(csvLog) + 1)
                 PROVE  Cardinality(Orders(sessions + 1, j, Len(csvLog) + 1)) <= risk.losses
      <4>1. \A s, j, i : Orders(s, j, i)' = Orders(s, j, i)
        BY <2>1 DEF Orders
      <4>2. /\ sessions' = sessions + 1 /\ Len(csvLog') + 1 = Len(csvLog) + 1
            /\ risk'.losses = risk.losses
        BY <2>1
      <4> QED
        BY <4>1, <4>2 DEF Trailing
    <3>1. Orders(sessions + 1, j, Len(csvLog) + 1) = {}
      BY <2>2, <2>3 DEF Orders
    <3>2. Cardinality({}) = 0
      BY FS_EmptySet
    <3>3. risk.losses >= 0
      BY <1>1
    <3> QED
      BY <3>1, <3>2, <3>3
  <2> QED
    BY <2>1, <2>4, <2>5 DEF StreakInv
<1>7. CASE NextCandle \/ StoreCandle \/ SkipCandle
  BY <1>3, <1>7 DEF NextCandle, StoreCandle, SkipCandle, disk, environment, engine
<1>8. CASE DeclineSignal
  <2>1. PICK prediction \in Predictions, candle \in FeatureRows :
          trade' = Record(candle, Refusal(prediction, candle), 0, balance)
          /\ Refusal(prediction, candle) # "NONE"
    BY <1>8 DEF DeclineSignal
  <2>2. trade'.result \notin {"WON", "LOST", "PENDING"}
    <3>1. trade'.result = Refusal(prediction, candle)
      BY <2>1 DEF Record
    <3> QED
      BY <2>1, <3>1 DEF Refusal
  <2>3. /\ pc = "check" /\ pc' = "log" /\ csvLog' = csvLog /\ sessions' = sessions /\ risk' = risk
    BY <1>8 DEF DeclineSignal, CanDecide, disk, environment, engine
  <2> QED
    BY <1>2, <2>2, <2>3 DEF StreakInv
<1>9. CASE OpenOrder
  <2>1. PICK prediction \in Predictions, candle \in FeatureRows :
          /\ Refusal(prediction, candle) = "NONE"
          /\ order' = [entry |-> candle, amount |-> PositionSize(risk), left |-> Expiration]
    BY <1>9 DEF OpenOrder
  <2>2. ~(PositionSize(risk) <= 0)
    BY <2>1, SessionAssumption DEF Refusal, BlockedByRisk
  <2>3. order'.amount > 0
    BY <1>1, <2>1, <2>2, RiskTypes
  <2> QED
    BY <1>3, <1>9, <2>3 DEF OpenOrder, CanDecide, disk, environment
<1>10. CASE AwaitCandle
  <2>1. order'.amount = order.amount
    <3>1. order \in OrderState /\ order' = [order EXCEPT !.left = order.left - 1]
      BY <1>0, <1>10 DEF TypeOK, AwaitCandle
    <3> QED
      BY <3>1 DEF OrderState
  <2> QED
    BY <1>3, <1>10, <2>1 DEF AwaitCandle, environment, StreakInv
<1>11. CASE StoreExitCandle
  BY <1>3, <1>11 DEF StoreExitCandle, environment, engine, StreakInv
<1>12. \A a, b \in Int : Trailing(a) /\ a <= b => Trailing(b)
  <2> SUFFICES ASSUME NEW a \in Int, NEW b \in Int, Trailing(a), a <= b,
                      NEW j \in 1..(Len(csvLog) + 1), LostRun(sessions, j, Len(csvLog) + 1)
               PROVE  Cardinality(Orders(sessions, j, Len(csvLog) + 1)) <= b
    BY DEF Trailing
  <2>1. Len(csvLog) + 1 \in Int /\ j \in Int
    BY <1>0 DEF TypeOK
  <2>2. Cardinality(Orders(sessions, j, Len(csvLog) + 1)) \in Nat
    BY <2>1, OrdersCount
  <2>3. Cardinality(Orders(sessions, j, Len(csvLog) + 1)) <= a
    BY DEF Trailing
  <2> QED
    BY <2>2, <2>3
<1>13. ASSUME pc = "await"
       PROVE  Trailing(MaxConsecutiveLosses - 1)
  <2>1. risk.losses < MaxConsecutiveLosses
    BY <1>13 DEF LossInv, CanTrade
  <2>2. Trailing(risk.losses) /\ risk.losses <= MaxConsecutiveLosses - 1
    BY <1>1, <1>13, <2>1 DEF StreakInv
  <2> QED
    BY <1>1, <1>12, <2>2
<1>14. CASE LeavePending
  <2>1. trade'.result = "PENDING"
    BY <1>14 DEF LeavePending, Record
  <2>2. /\ pc = "await" /\ pc' = "log" /\ csvLog' = csvLog /\ sessions' = sessions
    BY <1>14 DEF LeavePending, disk, environment
  <2> QED
    BY <1>2, <1>13, <2>1, <2>2 DEF StreakInv
<1>15. CASE ResolveOrder
  <2>1. PICK won \in BOOLEAN :
          /\ risk' = RegisterResult(risk, Profit(order.amount, won))
          /\ trade' = Record(order.entry, IF won THEN "WON" ELSE "LOST",
                             Profit(order.amount, won), balance + Profit(order.amount, won))
    BY <1>15 DEF ResolveOrder
  <2>2. /\ pc = "await" /\ pc' = "log" /\ csvLog' = csvLog /\ sessions' = sessions
    BY <1>15 DEF ResolveOrder, disk, environment
  <2>3. trade'.result = IF won THEN "WON" ELSE "LOST"
    BY <2>1 DEF Record
  <2>4. ~won => risk'.losses = risk.losses + 1
    <3> SUFFICES ASSUME ~won PROVE risk'.losses = risk.losses + 1
      OBVIOUS
    <3>1. order.amount \in Int /\ order.amount > 0
      BY <1>0, <2>2, FieldTypes DEF StreakInv
    <3>2. Profit(order.amount, won) < 0
      BY <3>1 DEF Profit
    <3>3. risk' = RegisterResult(risk, Profit(order.amount, won))
      BY <2>1
    <3> QED
      BY <1>1, <3>2, <3>3 DEF RegisterResult, RiskState
  <2>5. Trailing(risk.losses)
    BY <2>2 DEF StreakInv
  <2>6. ~won => Trailing(risk'.losses - 1)
    <3>1. ~won => risk'.losses - 1 = risk.losses
      BY <1>1, <2>4
    <3> QED
      BY <2>5, <3>1
  <2>7. /\ Trailing(MaxConsecutiveLosses - 1)'
        /\ ~won => Trailing(risk.losses - 1)'
    <3>1. \A b : Trailing(b)' <=> Trailing(b)
      BY <1>2, <2>2
    <3>2. Trailing(MaxConsecutiveLosses - 1)'
      BY <1>13, <2>2, <3>1
    <3> QED
      BY <2>2, <2>6, <3>2 DEF Trailing, LostRun, Orders
  <2> QED
    BY <1>2, <2>2, <2>3, <2>7 DEF StreakInv
<1>16. CASE LogTrade
  BY <1>16, StreakLogged
<1>17. CASE InsertTrade
  BY <1>2, <1>17 DEF InsertTrade, environment, engine, StreakInv
<1>18. CASE FinishSession \/ Crash \/ CrashInCursorWrite
  BY <1>4, <1>18 DEF FinishSession, Crash, CrashInCursorWrite, LoseProcess, environment
<1>19. CASE KillOn \/ KillOff \/ ResetCursor
  BY <1>3, <1>19 DEF KillOn, KillOff, ResetCursor, disk, engine, StreakInv
<1> QED
  BY <1>5, <1>6, <1>7, <1>8, <1>9, <1>10, <1>11, <1>14, <1>15, <1>16, <1>17, <1>18, <1>19
  DEF Next, EngineStep

\* MAX_CONSECUTIVE_LOSSES lost orders in a row end a session's trading, for any
\* limit, any mix of wins, pending orders and refusals, crashes and restarts.
THEOREM StreakEnds == Spec => []LossStreakEndsTrading
<1>1. Init => StreakInv
  BY DEF Init, StreakInv, LossStreakEndsTrading
<1>2. Init => LossInv
  BY NothingLost DEF Init, FreshRisk, LossInv, DailyLossBounded
<1>3. Spec => []LossInv
  BY <1>2, LossStep, TypeInvariance, BooksInvariance, PTL DEF Spec
<1>4. StreakInv => LossStreakEndsTrading
  BY DEF StreakInv
<1> QED
  BY <1>1, <1>3, <1>4, StreakStep, TypeInvariance, BooksInvariance, PTL DEF Spec

-----------------------------------------------------------------------------
(* The log and the table                                                   *)

\* How many of a session's rows the table lacks.
Behind(s) == Cardinality(RowsOf(csvLog, s)) - Cardinality(RowsOf(db, s))

\* LogLeadsTable, with whose rows the stores hold, and which row is in between.
LeadInv ==
  /\ LogLeadsTable
  /\ \A k \in 1..Len(db) : db[k].session <= sessions
  /\ pc = "insert" =>
       /\ Len(csvLog) >= 1 /\ csvLog[Len(csvLog)] = trade
       /\ Behind(sessions) = 1

\* The rows of a store after one more is appended.
LEMMA AppendedRows ==
  ASSUME NEW q \in Seq(Row), NEW row \in Row
  PROVE  /\ \A s : RowsOf(Append(q, row), s) =
              IF row.session = s THEN RowsOf(q, s) \cup {Len(q) + 1} ELSE RowsOf(q, s)
         /\ \A i \in 1..Len(q) : Before(Append(q, row), i) = Before(q, i)
         /\ Before(Append(q, row), Len(q) + 1) = RowsOf(q, row.session)
<1> DEFINE r == Append(q, row)   n == Len(q)
<1>1. /\ Len(r) = n + 1 /\ n \in Nat /\ r[n + 1] = row
      /\ \A i \in 1..n : r[i] = q[i]
  BY LastOfAppend
<1> HIDE DEF r, n
<1>2. \A i \in 1..(n + 1) : i \in 1..n \/ i = n + 1
  BY <1>1
<1>3. \A s : RowsOf(r, s) =
         IF row.session = s THEN RowsOf(q, s) \cup {n + 1} ELSE RowsOf(q, s)
  <2> TAKE s
  <2>1. RowsOf(r, s) = {i \in 1..(n + 1) : r[i].session = s}
    BY <1>1 DEF RowsOf
  <2>2. RowsOf(q, s) = {i \in 1..n : q[i].session = s}
    BY DEF RowsOf, n
  <2>3. 1..n \subseteq 1..(n + 1) /\ n + 1 \in 1..(n + 1)
    BY <1>1
  <2>4. CASE row.session = s
    BY <1>1, <1>2, <2>1, <2>2, <2>3, <2>4
  <2>5. CASE row.session # s
    BY <1>1, <1>2, <2>1, <2>2, <2>3, <2>5
  <2> QED
    BY <2>4, <2>5
<1>4. \A s : \A h \in RowsOf(q, s) : h \in 1..n
  BY DEF RowsOf, n
<1>5. ASSUME NEW i \in 1..n
      PROVE  Before(r, i) = Before(q, i)
  <2>1. r[i].session = q[i].session /\ ~(n + 1 < i)
    BY <1>1
  <2>2. Before(r, i) = {h \in RowsOf(r, q[i].session) : h < i}
    BY <2>1 DEF Before
  <2>3. Before(q, i) = {h \in RowsOf(q, q[i].session) : h < i}
    BY DEF Before
  <2>4. CASE row.session = q[i].session
    <3>1. RowsOf(r, q[i].session) = RowsOf(q, q[i].session) \cup {n + 1}
      BY <1>3, <2>4
    <3> QED
      BY <2>1, <2>2, <2>3, <3>1
  <2>5. CASE row.session # q[i].session
    <3>1. RowsOf(r, q[i].session) = RowsOf(q, q[i].session)
      BY <1>3, <2>5
    <3> QED
      BY <2>2, <2>3, <3>1
  <2> QED
    BY <2>4, <2>5
<1>6. Before(r, n + 1) = RowsOf(q, row.session)
  <2>1. Before(r, n + 1) = {h \in RowsOf(q, row.session) \cup {n + 1} : h < n + 1}
    BY <1>1, <1>3 DEF Before
  <2>2. \A h \in RowsOf(q, row.session) : h < n + 1
    BY <1>1, <1>4
  <2>3. ~(n + 1 < n + 1)
    BY <1>1
  <2> QED
    BY <2>1, <2>2, <2>3
<1> QED
  BY <1>3, <1>5, <1>6 DEF r, n

\* A row's place is below its session's number of rows, and only the last row of
\* a session has the last place.
LEMMA RowsCount ==
  ASSUME NEW q \in Seq(Row)
  PROVE  /\ \A s : /\ IsFiniteSet(RowsOf(q, s)) /\ Cardinality(RowsOf(q, s)) \in Nat
                   /\ Len(q) + 1 \notin RowsOf(q, s)
         /\ \A i \in 1..Len(q) :
              /\ Cardinality(Before(q, i)) \in Nat
              /\ Cardinality(Before(q, i)) < Cardinality(RowsOf(q, q[i].session))
         /\ \A i, k \in 1..Len(q) : q[i].session = q[k].session /\ i < k =>
              Cardinality(Before(q, i)) < Cardinality(RowsOf(q, q[i].session)) - 1
<1>1. ASSUME NEW s
      PROVE  IsFiniteSet(RowsOf(q, s)) /\ Cardinality(RowsOf(q, s)) \in Nat
  <2>1. 1 \in Int /\ Len(q) \in Int
    OBVIOUS
  <2>2. IsFiniteSet(1..Len(q))
    BY <2>1, FS_Interval
  <2>3. RowsOf(q, s) \subseteq 1..Len(q)
    BY DEF RowsOf
  <2>4. IsFiniteSet(RowsOf(q, s))
    BY <2>2, <2>3, FS_Subset
  <2> QED
    BY <2>4, FS_CardinalityType
<1>2. ASSUME NEW s
      PROVE  Len(q) + 1 \notin RowsOf(q, s)
  BY DEF RowsOf
<1>3. ASSUME NEW i \in 1..Len(q)
      PROVE  /\ Cardinality(Before(q, i)) \in Nat
             /\ Cardinality(Before(q, i)) < Cardinality(RowsOf(q, q[i].session))
             /\ \A k \in 1..Len(q) : q[i].session = q[k].session /\ i < k =>
                  Cardinality(Before(q, i)) < Cardinality(RowsOf(q, q[i].session)) - 1
  <2> DEFINE R == RowsOf(q, q[i].session)   B == Before(q, i)
  <2>1. IsFiniteSet(R) /\ Cardinality(R) \in Nat
    BY <1>1
  <2>2. B \subseteq R \ {i} /\ i \in R
    BY DEF RowsOf, Before
  <2>3. \A k \in 1..Len(q) : q[i].session = q[k].session /\ i < k =>
          B \subseteq (R \ {i}) \ {k} /\ k \in R \ {i}
    BY DEF RowsOf, Before
  <2> HIDE DEF R, B
  <2>4. IsFiniteSet(R \ {i}) /\ Cardinality(R \ {i}) = Cardinality(R) - 1
    BY <2>1, <2>2, FS_RemoveElement
  <2>5. IsFiniteSet(B) /\ Cardinality(B) <= Cardinality(R \ {i})
    BY <2>2, <2>4, FS_Subset
  <2>6. Cardinality(B) \in Nat
    BY <2>5, FS_CardinalityType
  <2>7. ASSUME NEW k \in 1..Len(q), q[i].session = q[k].session, i < k
        PROVE  Cardinality(B) < Cardinality(R) - 1
    <3>1. B \subseteq (R \ {i}) \ {k} /\ k \in R \ {i}
      BY <2>3, <2>7
    <3> DEFINE S == R \ {i}
    <3>2. IsFiniteSet(S) /\ k \in S /\ Cardinality(S) = Cardinality(R) - 1
      BY <2>4, <3>1
    <3>3. B \subseteq S \ {k}
      BY <3>1
    <3> HIDE DEF S
    <3>4. IsFiniteSet(S \ {k}) /\ Cardinality(S \ {k}) = Cardinality(S) - 1
      BY <3>2, FS_RemoveElement
    <3>5. Cardinality(B) <= Cardinality(S \ {k})
      BY <3>3, <3>4, FS_Subset
    <3> QED
      BY <2>1, <2>6, <3>2, <3>4, <3>5
  <2>8. Cardinality(B) < Cardinality(R)
    BY <2>1, <2>4, <2>5, <2>6
  <2> QED
    BY <2>6, <2>7, <2>8 DEF R, B
<1> QED
  BY <1>1, <1>2, <1>3

\* The rows of both stores are typed, and their sessions are not ahead.
LEMMA StoreTypes ==
  ASSUME TypeInv
  PROVE  /\ csvLog \in Seq(Row) /\ db \in Seq(Row) /\ Len(csvLog) \in Nat /\ Len(db) \in Nat
         /\ sessions \in Nat
         /\ \A i \in 1..Len(csvLog) : csvLog[i].session \in Nat
         /\ \A k \in 1..Len(db) : db[k].session \in Nat
         /\ \A s : Behind(s) \in Int
<1>1. csvLog \in Seq(Row) /\ db \in Seq(Row) /\ sessions \in Nat
  BY DEF TypeInv, TypeOK
<1>2. \A row \in Row : row.session \in Nat
  BY DEF Row
<1>3. \A s : Behind(s) \in Int
  <2> TAKE s
  <2>1. Cardinality(RowsOf(csvLog, s)) \in Nat /\ Cardinality(RowsOf(db, s)) \in Nat
    BY <1>1, RowsCount
  <2> QED
    BY <2>1 DEF Behind
<1> QED
  BY <1>1, <1>2, <1>3

\* LogLeadsTable in terms of Behind.
LEMMA LeadSplit ==
  LogLeadsTable <=>
    /\ \A s \in 1..sessions :
         Behind(s) \in 0..1 /\ (Behind(s) = 1 => s \in dead \/ (s = sessions /\ pc = "insert"))
    /\ \A i \in 1..Len(csvLog), k \in 1..Len(db) :
         /\ csvLog[i].session = db[k].session
         /\ Cardinality(Before(csvLog, i)) = Cardinality(Before(db, k))
         => csvLog[i] = db[k]
BY DEF LogLeadsTable, Behind

\* Logging a row puts the running session one row ahead.
LEMMA LeadLogged ==
  ASSUME TypeInv, BooksInv, HolesInv, LeadInv, LogTrade
  PROVE  LeadInv'
<1> DEFINE n == Len(csvLog)
<1>1. PICK s \in 1..sessions : s = sessions
  BY DEF LogTrade, TypeInv, TypeOK, ProcessOK
<1>2. /\ pc = "log" /\ pc' = "insert" /\ csvLog' = Append(csvLog, trade) /\ db' = db
      /\ sessions' = sessions /\ dead' = dead /\ trade' = trade
      /\ trade.session = s /\ trade \in Row
  BY <1>1 DEF LogTrade, environment, engine, BooksInv, TypeInv, TypeOK
<1>3. csvLog \in Seq(Row) /\ db \in Seq(Row) /\ n \in Nat
  BY StoreTypes
<1>4. /\ Len(csvLog') = n + 1 /\ csvLog'[n + 1] = trade
      /\ \A i \in 1..n : csvLog'[i] = csvLog[i]
  BY <1>2, <1>3, LastOfAppend
<1>5. /\ \A t : RowsOf(csvLog', t) =
           IF t = s THEN RowsOf(csvLog, t) \cup {n + 1} ELSE RowsOf(csvLog, t)
      /\ \A i \in 1..n : Before(csvLog', i) = Before(csvLog, i)
      /\ Before(csvLog', n + 1) = RowsOf(csvLog, s)
  <2>1. /\ \A t : RowsOf(Append(csvLog, trade), t) =
             IF trade.session = t THEN RowsOf(csvLog, t) \cup {Len(csvLog) + 1} ELSE RowsOf(csvLog, t)
        /\ \A i \in 1..Len(csvLog) : Before(Append(csvLog, trade), i) = Before(csvLog, i)
        /\ Before(Append(csvLog, trade), Len(csvLog) + 1) = RowsOf(csvLog, trade.session)
    BY <1>2, <1>3, AppendedRows
  <2> QED
    BY <1>2, <2>1
<1>6. /\ Behind(s) = 0 /\ s \notin dead
      /\ \A t \in 1..sessions : Behind(t) \in 0..1 /\ (Behind(t) = 1 => t \in dead)
  <2>1. s \notin dead
    BY <1>1, <1>2 DEF HolesInv
  <2>2. \A t \in 1..sessions : Behind(t) \in 0..1 /\ (Behind(t) = 1 => t \in dead)
    BY <1>2, LeadSplit DEF LeadInv
  <2> QED
    BY <2>1, <2>2
<1>7. Behind(s)' = 1
  <2> DEFINE R == RowsOf(csvLog, s)
  <2>1. IsFiniteSet(R) /\ Cardinality(R) \in Nat /\ n + 1 \notin R
    BY <1>3, RowsCount
  <2>2. Cardinality(RowsOf(db, s)) = Cardinality(R)
    <3>1. Cardinality(RowsOf(db, s)) \in Nat
      BY <1>3, RowsCount
    <3> QED
      BY <1>6, <2>1, <3>1 DEF Behind
  <2>3. RowsOf(csvLog', s) = R \cup {n + 1}
    BY <1>5
  <2>4. Cardinality(R \cup {n + 1}) = Cardinality(R) + 1
    <3> HIDE DEF R
    <3>1. PICK m : m = n + 1
      OBVIOUS
    <3>2. Cardinality(R \cup {m}) = IF m \in R THEN Cardinality(R) ELSE Cardinality(R) + 1
      BY <2>1, FS_AddElement
    <3> QED
      BY <2>1, <3>1, <3>2
  <2>5. Behind(s)' = Cardinality(R \cup {n + 1}) - Cardinality(RowsOf(db, s))
    BY <1>2, <2>3 DEF Behind
  <2> QED
    BY <2>1, <2>2, <2>4, <2>5
<1>8. \A t : t # s => Behind(t)' = Behind(t)
  <2> SUFFICES ASSUME NEW t, t # s PROVE Behind(t)' = Behind(t)
    OBVIOUS
  <2>1. RowsOf(csvLog', t) = RowsOf(csvLog, t)
    BY <1>5
  <2> QED
    BY <1>2, <2>1 DEF Behind
<1>9. \A t \in 1..sessions' :
        Behind(t)' \in 0..1 /\ (Behind(t)' = 1 => t \in dead' \/ (t = sessions' /\ pc' = "insert"))
  BY <1>1, <1>2, <1>6, <1>7, <1>8
<1>10. ASSUME NEW i \in 1..(n + 1), NEW k \in 1..Len(db), csvLog'[i].session = db[k].session,
              Cardinality(Before(csvLog', i)) = Cardinality(Before(db, k))
       PROVE  csvLog'[i] = db[k]
  <2>1. CASE i \in 1..n
    <3>1. csvLog[i].session = db[k].session /\ csvLog'[i] = csvLog[i]
      BY <1>4, <1>10, <2>1
    <3>2. Cardinality(Before(csvLog, i)) = Cardinality(Before(db, k))
      BY <1>5, <1>10, <2>1
    <3> QED
      BY <2>1, <3>1, <3>2, LeadSplit DEF LeadInv
  <2>2. CASE i = n + 1
    <3>1. db[k].session = s /\ Before(csvLog', i) = RowsOf(csvLog, s)
      BY <1>2, <1>4, <1>5, <1>10, <2>2
    <3>2. /\ Cardinality(Before(db, k)) < Cardinality(RowsOf(db, s))
          /\ Cardinality(Before(db, k)) \in Nat
      BY <1>3, <3>1, RowsCount
    <3>3. Cardinality(RowsOf(csvLog, s)) \in Nat /\ Cardinality(RowsOf(db, s)) \in Nat
      BY <1>3, RowsCount
    <3>4. Cardinality(RowsOf(csvLog, s)) = Cardinality(RowsOf(db, s))
      BY <1>6, <3>3 DEF Behind
    <3> QED
      BY <1>10, <3>1, <3>2, <3>3, <3>4
  <2> QED
    BY <1>3, <2>1, <2>2
<1>11. LogLeadsTable'
  <2>1. \A i \in 1..Len(csvLog'), k \in 1..Len(db') :
          /\ csvLog'[i].session = db'[k].session
          /\ Cardinality(Before(csvLog', i)) = Cardinality(Before(db', k))
          => csvLog'[i] = db'[k]
    BY <1>2, <1>4, <1>10
  <2> QED
    BY <1>9, <2>1 DEF LogLeadsTable, Behind
<1> QED
  <2>1. \A k \in 1..Len(db') : db'[k].session <= sessions'
    BY <1>2 DEF LeadInv
  <2>2. Behind(sessions)' = 1
    BY <1>1, <1>2, <1>7
  <2>3. Len(csvLog') >= 1 /\ csvLog'[Len(csvLog')] = trade'
    BY <1>2, <1>3, <1>4
  <2> QED
    BY <1>11, <2>1, <2>2, <2>3 DEF LeadInv

\* Inserting the row brings the table level with the log again.
LEMMA LeadInserted ==
  ASSUME TypeInv, BooksInv, LeadInv, InsertTrade
  PROVE  LeadInv'
<1> DEFINE m == Len(db)
<1>1. PICK s \in 1..sessions : s = sessions
  BY DEF InsertTrade, TypeInv, TypeOK, ProcessOK
<1>2. /\ pc = "insert" /\ pc' = "loop" /\ csvLog' = csvLog /\ db' = Append(db, trade)
      /\ sessions' = sessions /\ dead' = dead
      /\ trade.session = s /\ trade \in Row
  BY <1>1 DEF InsertTrade, environment, engine, BooksInv, TypeInv, TypeOK
<1>3. csvLog \in Seq(Row) /\ db \in Seq(Row) /\ m \in Nat /\ Len(csvLog) \in Nat
  BY StoreTypes
<1>4. /\ Len(db') = m + 1 /\ db'[m + 1] = trade
      /\ \A k \in 1..m : db'[k] = db[k]
  BY <1>2, <1>3, LastOfAppend
<1>5. /\ \A t : RowsOf(db', t) =
           IF t = s THEN RowsOf(db, t) \cup {m + 1} ELSE RowsOf(db, t)
      /\ \A k \in 1..m : Before(db', k) = Before(db, k)
      /\ Before(db', m + 1) = RowsOf(db, s)
  <2>1. /\ \A t : RowsOf(Append(db, trade), t) =
             IF trade.session = t THEN RowsOf(db, t) \cup {Len(db) + 1} ELSE RowsOf(db, t)
        /\ \A k \in 1..Len(db) : Before(Append(db, trade), k) = Before(db, k)
        /\ Before(Append(db, trade), Len(db) + 1) = RowsOf(db, trade.session)
    BY <1>2, <1>3, AppendedRows
  <2> QED
    BY <1>2, <2>1
<1>6. /\ Behind(s) = 1 /\ Len(csvLog) >= 1 /\ csvLog[Len(csvLog)] = trade
      /\ \A t \in 1..sessions : t # s => Behind(t) \in 0..1 /\ (Behind(t) = 1 => t \in dead)
  <2>1. \A t \in 1..sessions :
          Behind(t) \in 0..1 /\ (Behind(t) = 1 => t \in dead \/ (t = sessions /\ pc = "insert"))
    BY LeadSplit DEF LeadInv
  <2> QED
    BY <1>1, <1>2, <2>1 DEF LeadInv
<1>7. /\ Cardinality(RowsOf(csvLog, s)) \in Nat /\ Cardinality(RowsOf(db, s)) \in Nat
      /\ Cardinality(RowsOf(csvLog, s)) = Cardinality(RowsOf(db, s)) + 1
  <2>1. Cardinality(RowsOf(csvLog, s)) \in Nat /\ Cardinality(RowsOf(db, s)) \in Nat
    BY <1>3, RowsCount
  <2> QED
    BY <1>6, <2>1 DEF Behind
<1>8. Behind(s)' = 0
  <2> DEFINE R == RowsOf(db, s)
  <2>1. IsFiniteSet(R) /\ Cardinality(R) \in Nat /\ m + 1 \notin R
    BY <1>3, RowsCount
  <2>2. RowsOf(db', s) = R \cup {m + 1}
    BY <1>5
  <2>3. Cardinality(R \cup {m + 1}) = Cardinality(R) + 1
    <3> HIDE DEF R
    <3>1. PICK c : c = m + 1
      OBVIOUS
    <3>2. Cardinality(R \cup {c}) = IF c \in R THEN Cardinality(R) ELSE Cardinality(R) + 1
      BY <2>1, FS_AddElement
    <3> QED
      BY <2>1, <3>1, <3>2
  <2>4. Behind(s)' = Cardinality(RowsOf(csvLog, s)) - Cardinality(R \cup {m + 1})
    BY <1>2, <2>2 DEF Behind
  <2> QED
    BY <1>7, <2>1, <2>3, <2>4
<1>9. \A t : t # s => Behind(t)' = Behind(t)
  <2> SUFFICES ASSUME NEW t, t # s PROVE Behind(t)' = Behind(t)
    OBVIOUS
  <2>1. RowsOf(db', t) = RowsOf(db, t)
    BY <1>5
  <2> QED
    BY <1>2, <2>1 DEF Behind
<1>10. \A t \in 1..sessions' :
         Behind(t)' \in 0..1 /\ (Behind(t)' = 1 => t \in dead' \/ (t = sessions' /\ pc' = "insert"))
  BY <1>1, <1>2, <1>6, <1>8, <1>9
<1>11. ASSUME NEW i \in 1..Len(csvLog), NEW k \in 1..(m + 1), csvLog[i].session = db'[k].session,
              Cardinality(Before(csvLog, i)) = Cardinality(Before(db', k))
       PROVE  csvLog[i] = db'[k]
  <2>1. CASE k \in 1..m
    <3>1. csvLog[i].session = db[k].session /\ db'[k] = db[k]
      BY <1>4, <1>11, <2>1
    <3>2. Cardinality(Before(csvLog, i)) = Cardinality(Before(db, k))
      BY <1>5, <1>11, <2>1
    <3> QED
      BY <2>1, <3>1, <3>2, LeadSplit DEF LeadInv
  <2>2. CASE k = m + 1
    <3> DEFINE n == Len(csvLog)
    <3>1. n \in 1..n /\ csvLog[n].session = s /\ csvLog[i].session = s
      BY <1>2, <1>3, <1>4, <1>6, <1>11, <2>2
    <3>2. Cardinality(Before(csvLog, i)) = Cardinality(RowsOf(db, s))
      BY <1>5, <1>11, <2>2
    <3>3. i < n => Cardinality(Before(csvLog, i)) < Cardinality(RowsOf(csvLog, s)) - 1
      BY <1>3, <3>1, RowsCount
    <3>4. ~(i < n)
      BY <1>7, <3>2, <3>3
    <3>5. i = n
      BY <1>3, <3>4
    <3> QED
      BY <1>4, <1>6, <2>2, <3>5
  <2> QED
    BY <1>3, <2>1, <2>2
<1>12. LogLeadsTable'
  <2>1. \A i \in 1..Len(csvLog'), k \in 1..Len(db') :
          /\ csvLog'[i].session = db'[k].session
          /\ Cardinality(Before(csvLog', i)) = Cardinality(Before(db', k))
          => csvLog'[i] = db'[k]
    BY <1>2, <1>4, <1>11
  <2> QED
    BY <1>10, <2>1 DEF LogLeadsTable, Behind
<1>13. \A k \in 1..Len(db') : db'[k].session <= sessions'
  <2>1. \A k \in 1..(m + 1) : k \in 1..m \/ k = m + 1
    BY <1>3
  <2>2. sessions <= sessions
    BY StoreTypes
  <2> QED
    BY <1>1, <1>2, <1>4, <2>1, <2>2 DEF LeadInv
<1> QED
  BY <1>2, <1>12, <1>13 DEF LeadInv

\* Every step keeps the log ahead of the table: log_trade comes before
\* insert_trade, and only a session that dies in between stays one row ahead.
LEMMA LeadStep ==
  ASSUME TypeInv, BooksInv, HolesInv, LeadInv, [Next]_vars
  PROVE  LeadInv'
<1>1. ASSUME UNCHANGED <<csvLog, db, sessions, dead>>,
             \/ pc' = pc /\ trade' = trade
             \/ pc # "insert" /\ pc' # "insert"
      PROVE  LeadInv'
  BY <1>1 DEF LeadInv, LogLeadsTable, Behind
<1>2. CASE UNCHANGED vars
  BY <1>1, <1>2 DEF vars, disk, environment, engine
<1>3. CASE StartSession
  <2>1. /\ pc = "idle" /\ pc' = "loop" /\ csvLog' = csvLog /\ db' = db
        /\ sessions' = sessions + 1 /\ dead' = dead
    BY <1>3 DEF StartSession, disk
  <2>2. /\ sessions \in Nat
        /\ \A i \in 1..Len(csvLog) : csvLog[i].session # sessions + 1
        /\ \A k \in 1..Len(db) : db[k].session # sessions + 1 /\ db[k].session <= sessions + 1
    BY StoreTypes DEF BooksInv, LeadInv
  <2>3. RowsOf(csvLog, sessions + 1) = {} /\ RowsOf(db, sessions + 1) = {}
    BY <2>2 DEF RowsOf
  <2>4. Behind(sessions + 1) = 0
    <3>1. Cardinality({}) = 0
      BY FS_EmptySet
    <3> QED
      BY <2>3, <3>1 DEF Behind
  <2>5. \A t : Behind(t)' = Behind(t)
    BY <2>1 DEF Behind
  <2>6. \A t \in 1..sessions : Behind(t) \in 0..1 /\ (Behind(t) = 1 => t \in dead)
    BY <2>1, LeadSplit DEF LeadInv
  <2>7. \A t \in 1..sessions' : t \in 1..sessions \/ t = sessions + 1
    BY <2>1, <2>2
  <2>8. \A t \in 1..sessions' :
          Behind(t)' \in 0..1 /\ (Behind(t)' = 1 => t \in dead' \/ (t = sessions' /\ pc' = "insert"))
    BY <2>1, <2>4, <2>5, <2>6, <2>7
  <2>9. LogLeadsTable'
    <3>1. \A i \in 1..Len(csvLog'), k \in 1..Len(db') :
            /\ csvLog'[i].session = db'[k].session
            /\ Cardinality(Before(csvLog', i)) = Cardinality(Before(db', k))
            => csvLog'[i] = db'[k]
      BY <2>1, LeadSplit DEF LeadInv
    <3> QED
      BY <2>8, <3>1 DEF LogLeadsTable, Behind
  <2> QED
    BY <2>1, <2>2, <2>9 DEF LeadInv
<1>4. CASE NextCandle \/ StoreCandle \/ SkipCandle
  BY <1>1, <1>4 DEF NextCandle, StoreCandle, SkipCandle, disk, environment, engine
<1>5. CASE DeclineSignal \/ OpenOrder
  BY <1>1, <1>5 DEF DeclineSignal, OpenOrder, CanDecide, disk, environment
<1>6. CASE AwaitCandle \/ StoreExitCandle \/ LeavePending \/ ResolveOrder
  BY <1>1, <1>6 DEF AwaitCandle, StoreExitCandle, LeavePending, ResolveOrder, disk, environment
<1>7. CASE LogTrade
  BY <1>7, LeadLogged
<1>8. CASE InsertTrade
  BY <1>8, LeadInserted
<1>9. CASE FinishSession
  BY <1>1, <1>9 DEF FinishSession, NoProcess, environment
<1>10. CASE Crash \/ CrashInCursorWrite
  <2>1. /\ csvLog' = csvLog /\ db' = db /\ sessions' = sessions
        /\ dead' = dead \cup {sessions} /\ pc' = "idle"
    BY <1>10 DEF Crash, CrashInCursorWrite, LoseProcess, NoProcess
  <2>2. \A t : Behind(t)' = Behind(t)
    BY <2>1 DEF Behind
  <2>3. \A t \in 1..sessions' :
          Behind(t)' \in 0..1 /\ (Behind(t)' = 1 => t \in dead' \/ (t = sessions' /\ pc' = "insert"))
    BY <2>1, <2>2, LeadSplit DEF LeadInv
  <2>4. \A i \in 1..Len(csvLog'), k \in 1..Len(db') :
          /\ csvLog'[i].session = db'[k].session
          /\ Cardinality(Before(csvLog', i)) = Cardinality(Before(db', k))
          => csvLog'[i] = db'[k]
    BY <2>1, LeadSplit DEF LeadInv
  <2>5. LogLeadsTable'
    BY <2>3, <2>4 DEF LogLeadsTable, Behind
  <2> QED
    BY <2>1, <2>5 DEF LeadInv
<1>11. CASE KillOn \/ KillOff \/ ResetCursor
  BY <1>1, <1>11 DEF KillOn, KillOff, ResetCursor, disk
<1> QED
  BY <1>2, <1>3, <1>4, <1>5, <1>6, <1>7, <1>8, <1>9, <1>10, <1>11 DEF Next, EngineStep

\* A session's table rows are a prefix of its log rows, and only a session that
\* died between the two writes lacks one, for any number of sessions and crashes.
THEOREM LogLeads == Spec => []LogLeadsTable
<1>1. Init => LeadInv
  BY DEF Init, LeadInv, LogLeadsTable
<1>2. LeadInv => LogLeadsTable
  BY DEF LeadInv
<1> QED
  BY <1>1, <1>2, LeadStep, HolesInvariance, TypeInvariance, BooksInvariance, PTL DEF Spec
=============================================================================
