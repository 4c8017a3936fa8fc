------------------------- MODULE YoutubeSessionProofs -------------------------
(***************************************************************************)
(* Proofs about YoutubeSession, for any number of calls of either kind:    *)
(* no request leaves a session that has no ids, and a binding is used for  *)
(* one request numbered from the start unless two calls shared a session.  *)
(***************************************************************************)
EXTENDS YoutubeSession, TLAPS

\* A call on its way to a request follows an assignment of ids, which are
\* never taken away.
IdsHeld ==
    \A c \in Calls :
        /\ pc[c] = "assign" => got[c] # 0
        /\ pc[c] \in {"number", "ofs", "post"} => lounge[on[c]] /\ bound[on[c]] # 0

\* A queue command never looks for a screen.
ActionsKeepOff ==
    \A c \in Actions :
        phase[c] \in {"action", "rebind"} /\ pc[c] \in Working \cup {"idle", "returned"}

\* Where a call holds a binding it has not used.
Holding == {"assign", "number", "ofs", "post"}

\* One call at most works on a session.
OneWorker ==
    \A c, d \in Calls :
        pc[c] \in Working /\ pc[d] \in Working /\ on[c] = on[d] => c = d

\* What the counters of its session are at each place.
CountersFollow ==
    \A c \in Calls :
        /\ pc[c] = "take" => requestCounter[on[c]] = 0
        /\ pc[c] \in {"bind", "assign", "number"} => requestCounter[on[c]] = 1
        /\ pc[c] \in {"take", "bind", "assign", "number", "ofs"} => sessionCounter[on[c]] = 0
        /\ pc[c] \in {"ofs", "post"} => number[c] = 1
        /\ pc[c] = "post" => ofs[c] = 0

\* A binding that is held is held by one call, and no request used it.
BindingsFresh ==
    /\ \A c \in Calls : pc[c] \in {"number", "ofs", "post"} => bound[on[c]] = got[c]
    /\ \A c, d \in Calls :
          pc[c] \in Holding /\ pc[d] \in Holding /\ got[c] = got[d] => c = d
    /\ \A p \in posted : p.binding <= binds
    /\ \A c \in Calls : pc[c] \in Holding => \A p \in posted : p.binding # got[c]

PostedInOrder ==
    /\ \A p \in posted : p.number = 1 /\ p.ofs = 0 /\ p.own
    /\ \A p, q \in posted : p.binding = q.binding => p = q

CountInv == OneWorker /\ CountersFollow /\ BindingsFresh /\ PostedInOrder

IInv ==
    /\ TypeOK
    /\ ActionsKeepOff
    /\ IdsHeld
    /\ ~raced => CountInv

USE YoutubeAssumption DEF Calls, Sessions

LEMMA InitIInv == Init => IInv
<1> SUFFICES ASSUME Init PROVE IInv
  OBVIOUS
<1> USE DEF Init
<1>1. TypeOK
  <2>1. /\ bound \in [Sessions -> 0 .. binds] /\ got \in [Calls -> 0 .. binds]
        /\ mail \in 0 .. MaxMail /\ binds \in Nat
    OBVIOUS
  <2>2. /\ session \in Sessions /\ on \in [Calls -> Sessions]
        /\ lounge \in [Sessions -> BOOLEAN] /\ initialized \in [Sessions -> BOOLEAN]
        /\ raced \in BOOLEAN /\ crashed \in BOOLEAN /\ posted \subseteq Request
    OBVIOUS
  <2>3. /\ requestCounter \in [Sessions -> Nat] /\ sessionCounter \in [Sessions -> Nat]
        /\ number \in [Calls -> Nat] /\ ofs \in [Calls -> Nat]
    OBVIOUS
  <2> QED
    BY <2>1, <2>2, <2>3 DEF TypeOK
<1>2. ActionsKeepOff /\ IdsHeld
  BY DEF ActionsKeepOff, IdsHeld
<1>3. OneWorker /\ CountersFollow
  BY DEF OneWorker, CountersFollow, Working
<1>4. BindingsFresh /\ PostedInOrder
  BY DEF BindingsFresh, PostedInOrder, Holding
<1> QED
  BY <1>1, <1>2, <1>3, <1>4 DEF IInv, CountInv

\* What Post puts on record.
LEMMA PostAdds ==
  ASSUME TypeOK, NEW c \in Calls, Post(c)
  PROVE  \E p \in Request :
            /\ posted' = posted \cup {p}
            /\ p.binding = bound[on[c]] /\ p.number = number[c] /\ p.ofs = ofs[c]
            /\ bound[on[c]] = got[c] => p.own
<1> DEFINE own == bound[on[c]] = got[c]
           p == [by |-> c, binding |-> bound[on[c]], own |-> own,
                 number |-> number[c], ofs |-> ofs[c]]
<1>1. bound[on[c]] \in Nat /\ number[c] \in Nat /\ ofs[c] \in Nat
  BY DEF TypeOK
<1>2. own \in BOOLEAN
  OBVIOUS
<1>3. posted' = posted \cup {p}
  BY DEF Post
<1> HIDE DEF own
<1>4. p \in Request
  BY <1>1, <1>2 DEF Request
<1>5. own => p.own
  OBVIOUS
<1> QED
  BY <1>3, <1>4, <1>5 DEF own

LEMMA StepTypes == TypeOK /\ ActionsKeepOff /\ [Next]_vars => TypeOK'
<1> SUFFICES ASSUME TypeOK, ActionsKeepOff, [Next]_vars PROVE TypeOK'
  OBVIOUS
<1> USE DEF TypeOK, Working, ids, counters, taken, device
<1>1. CASE UNCHANGED vars
  BY <1>1 DEF vars
<1>2. ASSUME NEW c \in Calls, CallAction(c) PROVE TypeOK'
  BY <1>2 DEF CallAction, Goes, WorksOn
<1>3. ASSUME NEW c \in Calls, PlayVideo(c) PROVE TypeOK'
  BY <1>3 DEF PlayVideo, Goes
<1>4. ASSUME NEW c \in Calls, EnsureSessionActive(c) PROVE TypeOK'
  BY <1>4 DEF EnsureSessionActive, Goes
<1>5. ASSUME NEW c \in Calls, SetLoungeID(c) PROVE TypeOK'
  BY <1>5 DEF SetLoungeID, Goes
<1>6. ASSUME NEW c \in Calls, SetLoungeIDFails(c) PROVE TypeOK'
  BY <1>6 DEF SetLoungeIDFails, Goes, Failed
<1>7. ASSUME NEW c \in Calls, ResetCounters(c) PROVE TypeOK'
  BY <1>7 DEF ResetCounters, Goes
<1>8. ASSUME NEW c \in Calls, CreateBindRequest(c) PROVE TypeOK'
  BY <1>8 DEF CreateBindRequest, Goes
<1>9. ASSUME NEW c \in Calls, Bind(c) PROVE TypeOK'
  BY <1>9 DEF Bind, Goes
<1>10. ASSUME NEW c \in Calls, BindFails(c) PROVE TypeOK'
  BY <1>10 DEF BindFails, Goes, Failed
<1>11. ASSUME NEW c \in Calls, AssignVariables(c) PROVE TypeOK'
  BY <1>11 DEF AssignVariables, Goes, Ready
<1>12. ASSUME NEW c \in Calls, TakeRequestCount(c) PROVE TypeOK'
  BY <1>12 DEF TakeRequestCount, Goes
<1>13. ASSUME NEW c \in Calls, TakeSessionRequestCount(c) PROVE TypeOK'
  BY <1>13 DEF TakeSessionRequestCount, Goes
<1>14. ASSUME NEW c \in Calls, Post(c) PROVE TypeOK'
  <2>1. posted' \subseteq Request
    BY <1>14, PostAdds
  <2>2. phase' \in [Calls -> {"action", "first", "start", "second", "rebind"}]
    BY <1>14 DEF Post
  <2> QED
    BY <1>14, <2>1, <2>2 DEF Post, Goes
<1>15. ASSUME NEW c \in Calls, PostFails(c) PROVE TypeOK'
  BY <1>15 DEF PostFails, Goes, Failed
<1>16. ASSUME NEW c \in Calls, InitializeQueue(c) PROVE TypeOK'
  <2>1. PICK why \in {"first", "second"}, from \in {"try", "queue"} :
           Goes(c, from, "ensure") /\ WorksOn(c, session, why)
    BY <1>16 DEF InitializeQueue
  <2>2. raced' \in BOOLEAN
    BY <2>1 DEF WorksOn
  <2>3. /\ on' \in [Calls -> Sessions]
        /\ phase' \in [Calls -> {"action", "first", "start", "second", "rebind"}]
    BY <2>1 DEF WorksOn
  <2> QED
    BY <1>16, <2>1, <2>2, <2>3 DEF InitializeQueue, Goes
<1>17. ASSUME NEW c \in Calls, GetScreenID(c) PROVE TypeOK'
  BY <1>17 DEF GetScreenID, Goes
<1>18. ASSUME NEW c \in Calls, AskStatus(c) PROVE TypeOK'
  BY <1>18 DEF AskStatus, Goes
<1>19. ASSUME NEW c \in Calls, GotScreenID(c) PROVE TypeOK'
  BY <1>19 DEF GotScreenID, Goes
<1>20. ASSUME NEW c \in Calls, TimesOut(c) PROVE TypeOK'
  BY <1>20 DEF TimesOut, Goes
<1>21. ASSUME NEW c \in Calls, UpdateYoutubeSession(c) PROVE TypeOK'
  BY <1>21 DEF UpdateYoutubeSession, Goes, ActionsKeepOff
<1>22. ASSUME NEW c \in Calls, StartSession(c) PROVE TypeOK'
  BY <1>22 DEF StartSession, Goes, WorksOn
<1>23. CASE Tells
  BY <1>23 DEF Tells
<1>24. CASE OnStatus
  BY <1>24 DEF OnStatus, Receiving
<1> QED
  BY <1>1, <1>2, <1>3, <1>4, <1>5, <1>6, <1>7, <1>8, <1>9, <1>10, <1>11, <1>12, <1>13,
     <1>14, <1>15, <1>16, <1>17, <1>18, <1>19, <1>20, <1>21, <1>22, <1>23, <1>24 DEF
     Next, Proceed

LEMMA StepActions == TypeOK /\ ActionsKeepOff /\ [Next]_vars => ActionsKeepOff'
<1> SUFFICES ASSUME TypeOK, ActionsKeepOff, [Next]_vars PROVE ActionsKeepOff'
  OBVIOUS
<1> USE DEF TypeOK, ActionsKeepOff, Working, ids, counters, taken, device
<1>1. CASE UNCHANGED vars
  BY <1>1 DEF vars
<1>2. ASSUME NEW c \in Calls, CallAction(c) PROVE ActionsKeepOff'
  BY <1>2 DEF CallAction, Goes, WorksOn
<1>3. ASSUME NEW c \in Calls, PlayVideo(c) PROVE ActionsKeepOff'
  BY <1>3 DEF PlayVideo, Goes
<1>4. ASSUME NEW c \in Calls, EnsureSessionActive(c) PROVE ActionsKeepOff'
  BY <1>4 DEF EnsureSessionActive, Goes
<1>5. ASSUME NEW c \in Calls, SetLoungeID(c) PROVE ActionsKeepOff'
  BY <1>5 DEF SetLoungeID, Goes
<1>6. ASSUME NEW c \in Calls, SetLoungeIDFails(c) PROVE ActionsKeepOff'
  BY <1>6 DEF SetLoungeIDFails, Goes, Failed
<1>7. ASSUME NEW c \in Calls, ResetCounters(c) PROVE ActionsKeepOff'
  BY <1>7 DEF ResetCounters, Goes
<1>8. ASSUME NEW c \in Calls, CreateBindRequest(c) PROVE ActionsKeepOff'
  BY <1>8 DEF CreateBindRequest, Goes
<1>9. ASSUME NEW c \in Calls, Bind(c) PROVE ActionsKeepOff'
  BY <1>9 DEF Bind, Goes
<1>10. ASSUME NEW c \in Calls, BindFails(c) PROVE ActionsKeepOff'
  BY <1>10 DEF BindFails, Goes, Failed
<1>11. ASSUME NEW c \in Calls, AssignVariables(c) PROVE ActionsKeepOff'
  BY <1>11 DEF AssignVariables, Goes, Ready
<1>12. ASSUME NEW c \in Calls, TakeRequestCount(c) PROVE ActionsKeepOff'
  BY <1>12 DEF TakeRequestCount, Goes
<1>13. ASSUME NEW c \in Calls, TakeSessionRequestCount(c) PROVE ActionsKeepOff'
  BY <1>13 DEF TakeSessionRequestCount, Goes
<1>14. ASSUME NEW c \in Calls, Post(c) PROVE ActionsKeepOff'
  BY <1>14 DEF Post, Goes, Request
<1>15. ASSUME NEW c \in Calls, PostFails(c) PROVE ActionsKeepOff'
  BY <1>15 DEF PostFails, Goes, Failed
<1>16. ASSUME NEW c \in Calls, InitializeQueue(c) PROVE ActionsKeepOff'
  BY <1>16 DEF InitializeQueue, Goes, WorksOn
<1>17. ASSUME NEW c \in Calls, GetScreenID(c) PROVE ActionsKeepOff'
  BY <1>17 DEF GetScreenID, Goes
<1>18. ASSUME NEW c \in Calls, AskStatus(c) PROVE ActionsKeepOff'
  BY <1>18 DEF AskStatus, Goes
<1>19. ASSUME NEW c \in Calls, GotScreenID(c) PROVE ActionsKeepOff'
  BY <1>19 DEF GotScreenID, Goes
<1>20. ASSUME NEW c \in Calls, TimesOut(c) PROVE ActionsKeepOff'
  BY <1>20 DEF TimesOut, Goes
<1>21. ASSUME NEW c \in Calls, UpdateYoutubeSession(c) PROVE ActionsKeepOff'
  BY <1>21 DEF UpdateYoutubeSession, Goes
<1>22. ASSUME NEW c \in Calls, StartSession(c) PROVE ActionsKeepOff'
  BY <1>22 DEF StartSession, Goes, WorksOn
<1>23. CASE Tells
  BY <1>23 DEF Tells
<1>24. CASE OnStatus
  BY <1>24 DEF OnStatus, Receiving
<1> QED
  BY <1>1, <1>2, <1>3, <1>4, <1>5, <1>6, <1>7, <1>8, <1>9, <1>10, <1>11, <1>12, <1>13,
     <1>14, <1>15, <1>16, <1>17, <1>18, <1>19, <1>20, <1>21, <1>22, <1>23, <1>24 DEF
     Next, Proceed

LEMMA StepIds == TypeOK /\ IdsHeld /\ [Next]_vars => IdsHeld'
<1> SUFFICES ASSUME TypeOK, IdsHeld, [Next]_vars PROVE IdsHeld'
  OBVIOUS
<1> USE DEF TypeOK, IdsHeld, ids, counters, taken, device
<1>1. CASE UNCHANGED vars
  BY <1>1 DEF vars
<1>2. ASSUME NEW c \in Calls, CallAction(c) PROVE IdsHeld'
  BY <1>2 DEF CallAction, Goes, WorksOn
<1>3. ASSUME NEW c \in Calls, PlayVideo(c) PROVE IdsHeld'
  BY <1>3 DEF PlayVideo, Goes
<1>4. ASSUME NEW c \in Calls, EnsureSessionActive(c) PROVE IdsHeld'
  BY <1>4 DEF EnsureSessionActive, Goes
<1>5. ASSUME NEW c \in Calls, SetLoungeID(c) PROVE IdsHeld'
  BY <1>5 DEF SetLoungeID, Goes
<1>6. ASSUME NEW c \in Calls, SetLoungeIDFails(c) PROVE IdsHeld'
  BY <1>6 DEF SetLoungeIDFails, Goes, Failed
<1>7. ASSUME NEW c \in Calls, ResetCounters(c) PROVE IdsHeld'
  BY <1>7 DEF ResetCounters, Goes
<1>8. ASSUME NEW c \in Calls, CreateBindRequest(c) PROVE IdsHeld'
  BY <1>8 DEF CreateBindRequest, Goes
<1>9. ASSUME NEW c \in Calls, Bind(c) PROVE IdsHeld'
  BY <1>9 DEF Bind, Goes
<1>10. ASSUME NEW c \in Calls, BindFails(c) PROVE IdsHeld'
  BY <1>10 DEF BindFails, Goes, Failed
<1>11. ASSUME NEW c \in Calls, AssignVariables(c) PROVE IdsHeld'
  BY <1>11 DEF AssignVariables, Goes, Ready
<1>12. ASSUME NEW c \in Calls, TakeRequestCount(c) PROVE IdsHeld'
  BY <1>12 DEF TakeRequestCount, Goes
<1>13. ASSUME NEW c \in Calls, TakeSessionRequestCount(c) PROVE IdsHeld'
  BY <1>13 DEF TakeSessionRequestCount, Goes
<1>14. ASSUME NEW c \in Calls, Post(c) PROVE IdsHeld'
  BY <1>14 DEF Post, Goes, Request
<1>15. ASSUME NEW c \in Calls, PostFails(c) PROVE IdsHeld'
  BY <1>15 DEF PostFails, Goes, Failed
<1>16. ASSUME NEW c \in Calls, InitializeQueue(c) PROVE IdsHeld'
  BY <1>16 DEF InitializeQueue, Goes, WorksOn
<1>17. ASSUME NEW c \in Calls, GetScreenID(c) PROVE IdsHeld'
  BY <1>17 DEF GetScreenID, Goes
<1>18. ASSUME NEW c \in Calls, AskStatus(c) PROVE IdsHeld'
  BY <1>18 DEF AskStatus, Goes
<1>19. ASSUME NEW c \in Calls, GotScreenID(c) PROVE IdsHeld'
  BY <1>19 DEF GotScreenID, Goes
<1>20. ASSUME NEW c \in Calls, TimesOut(c) PROVE IdsHeld'
  BY <1>20 DEF TimesOut, Goes
<1>21. ASSUME NEW c \in Calls, UpdateYoutubeSession(c) PROVE IdsHeld'
  BY <1>21 DEF UpdateYoutubeSession, Goes
<1>22. ASSUME NEW c \in Calls, StartSession(c) PROVE IdsHeld'
  BY <1>22 DEF StartSession, Goes, WorksOn
<1>23. CASE Tells
  BY <1>23 DEF Tells
<1>24. CASE OnStatus
  BY <1>24 DEF OnStatus, Receiving
<1> QED
  BY <1>1, <1>2, <1>3, <1>4, <1>5, <1>6, <1>7, <1>8, <1>9, <1>10, <1>11, <1>12, <1>13,
     <1>14, <1>15, <1>16, <1>17, <1>18, <1>19, <1>20, <1>21, <1>22, <1>23, <1>24 DEF
     Next, Proceed

LEMMA RacedForGood == raced /\ [Next]_vars => raced'
BY DEF Next, vars, Proceed, WorksOn, CallAction, PlayVideo, Tells, OnStatus,
       EnsureSessionActive, SetLoungeID, SetLoungeIDFails, ResetCounters,
       CreateBindRequest, Bind, BindFails, AssignVariables, TakeRequestCount,
       TakeSessionRequestCount, Post, PostFails, InitializeQueue, GetScreenID,
       AskStatus, GotScreenID, TimesOut, UpdateYoutubeSession, StartSession

LEMMA StepCounts == TypeOK /\ CountInv /\ ~raced' /\ [Next]_vars => CountInv'
<1> SUFFICES ASSUME TypeOK, CountInv, ~raced', [Next]_vars PROVE CountInv'
  OBVIOUS
<1> USE DEF TypeOK, CountInv, OneWorker, CountersFollow, BindingsFresh, PostedInOrder,
        Working, Holding, ids, counters, taken, device
<1>1. CASE UNCHANGED vars
  BY <1>1 DEF vars
<1>2. ASSUME NEW c \in Calls, CallAction(c) PROVE CountInv'
  BY <1>2 DEF CallAction, Goes, WorksOn
<1>3. ASSUME NEW c \in Calls, PlayVideo(c) PROVE CountInv'
  BY <1>3 DEF PlayVideo, Goes
<1>4. ASSUME NEW c \in Calls, EnsureSessionActive(c) PROVE CountInv'
  BY <1>4 DEF EnsureSessionActive, Goes
<1>5. ASSUME NEW c \in Calls, SetLoungeID(c) PROVE CountInv'
  BY <1>5 DEF SetLoungeID, Goes
<1>6. ASSUME NEW c \in Calls, SetLoungeIDFails(c) PROVE CountInv'
  BY <1>6 DEF SetLoungeIDFails, Goes, Failed
<1>7. ASSUME NEW c \in Calls, ResetCounters(c) PROVE CountInv'
  BY <1>7 DEF ResetCounters, Goes
<1>8. ASSUME NEW c \in Calls, CreateBindRequest(c) PROVE CountInv'
  BY <1>8 DEF CreateBindRequest, Goes
<1>9. ASSUME NEW c \in Calls, Bind(c) PROVE CountInv'
  <2>1. OneWorker'
    BY <1>9 DEF Bind, Goes
  <2>2. CountersFollow'
    BY <1>9 DEF Bind, Goes
  <2>3. BindingsFresh'
    <3>1. \A d \in Calls : got[d] <= binds
      OBVIOUS
    <3>2. binds' = binds + 1 /\ got'[c] = binds + 1 /\ \A d \in Calls : d # c => got'[d] = got[d]
      BY <1>9 DEF Bind
    <3>3. pc[c] = "bind" /\ pc'[c] = "assign" /\ \A d \in Calls : d # c => pc'[d] = pc[d]
      BY <1>9 DEF Bind, Goes
    <3>4. \A p \in posted : p.binding \in Nat
      BY DEF Request
    <3>5. UNCHANGED <<bound, on, posted>>
      BY <1>9 DEF Bind
    <3> QED
      BY <3>1, <3>2, <3>3, <3>4, <3>5
  <2>4. PostedInOrder'
    BY <1>9 DEF Bind, Goes
  <2> QED
    BY <2>1, <2>2, <2>3, <2>4
<1>10. ASSUME NEW c \in Calls, BindFails(c) PROVE CountInv'
  BY <1>10 DEF BindFails, Goes, Failed
<1>11. ASSUME NEW c \in Calls, AssignVariables(c) PROVE CountInv'
  BY <1>11 DEF AssignVariables, Goes, Ready
<1>12. ASSUME NEW c \in Calls, TakeRequestCount(c) PROVE CountInv'
  BY <1>12 DEF TakeRequestCount, Goes
<1>13. ASSUME NEW c \in Calls, TakeSessionRequestCount(c) PROVE CountInv'
  BY <1>13 DEF TakeSessionRequestCount, Goes
<1>14. ASSUME NEW c \in Calls, Post(c) PROVE CountInv'
  <2>1. OneWorker'
    BY <1>14 DEF Post, Goes
  <2>2. CountersFollow'
    BY <1>14 DEF Post, Goes
  <2>3. BindingsFresh'
    BY <1>14 DEF Post, Goes
  <2>4. PostedInOrder'
    <3>1. PICK p \in Request :
             /\ posted' = posted \cup {p}
             /\ p.binding = bound[on[c]] /\ p.number = number[c] /\ p.ofs = ofs[c]
             /\ bound[on[c]] = got[c] => p.own
      BY <1>14, PostAdds
    <3>2. pc[c] = "post"
      BY <1>14 DEF Post, Goes
    <3>3. p.number = 1 /\ p.ofs = 0 /\ p.own /\ \A q \in posted : q.binding # p.binding
      BY <3>1, <3>2
    <3> QED
      BY <3>1, <3>3
  <2> QED
    BY <2>1, <2>2, <2>3, <2>4
<1>15. ASSUME NEW c \in Calls, PostFails(c) PROVE CountInv'
  BY <1>15 DEF PostFails, Goes, Failed
<1>16. ASSUME NEW c \in Calls, InitializeQueue(c) PROVE CountInv'
  <2>1. OneWorker'
    <3>1. \A d \in Calls \ {c} : pc'[d] = pc[d] /\ on'[d] = on[d]
      BY <1>16 DEF InitializeQueue, Goes, WorksOn
    <3>2. on'[c] = session
      BY <1>16 DEF InitializeQueue, WorksOn
    <3>3. \A d \in Calls \ {c} : ~(pc[d] \in Working /\ on[d] = session)
      BY <1>16 DEF InitializeQueue, WorksOn
    <3> QED
      BY <3>1, <3>2, <3>3
  <2>2. CountersFollow'
    BY <1>16 DEF InitializeQueue, Goes, WorksOn
  <2>3. BindingsFresh'
    <3>1. /\ pc'[c] = "ensure" /\ UNCHANGED <<bound, got, binds, posted>>
          /\ \A d \in Calls \ {c} : pc'[d] = pc[d] /\ on'[d] = on[d]
      BY <1>16 DEF InitializeQueue, Goes, WorksOn
    <3>2. \A d \in Calls :
             pc'[d] \in {"number", "ofs", "post"} \/ pc'[d] \in Holding =>
                 d # c /\ pc[d] = pc'[d] /\ on'[d] = on[d]
      BY <3>1 DEF Holding
    <3> QED
      BY <3>1, <3>2
  <2>4. PostedInOrder'
    BY <1>16 DEF InitializeQueue, Goes, WorksOn
  <2> QED
    BY <2>1, <2>2, <2>3, <2>4
<1>17. ASSUME NEW c \in Calls, GetScreenID(c) PROVE CountInv'
  BY <1>17 DEF GetScreenID, Goes
<1>18. ASSUME NEW c \in Calls, AskStatus(c) PROVE CountInv'
  BY <1>18 DEF AskStatus, Goes
<1>19. ASSUME NEW c \in Calls, GotScreenID(c) PROVE CountInv'
  BY <1>19 DEF GotScreenID, Goes
<1>20. ASSUME NEW c \in Calls, TimesOut(c) PROVE CountInv'
  BY <1>20 DEF TimesOut, Goes
<1>21. ASSUME NEW c \in Calls, UpdateYoutubeSession(c) PROVE CountInv'
  BY <1>21 DEF UpdateYoutubeSession, Goes
<1>22. ASSUME NEW c \in Calls, StartSession(c) PROVE CountInv'
  BY <1>22 DEF StartSession, Goes, WorksOn
<1>23. CASE Tells
  BY <1>23 DEF Tells
<1>24. CASE OnStatus
  BY <1>24 DEF OnStatus, Receiving
<1> QED
  BY <1>1, <1>2, <1>3, <1>4, <1>5, <1>6, <1>7, <1>8, <1>9, <1>10, <1>11, <1>12, <1>13,
     <1>14, <1>15, <1>16, <1>17, <1>18, <1>19, <1>20, <1>21, <1>22, <1>23, <1>24 DEF
     Next, Proceed

\* The inductive invariant holds in every state.
THEOREM SessionInvariant == Spec => []IInv
<1>1. IInv /\ [Next]_vars => IInv'
  BY StepTypes, StepActions, StepIds, StepCounts, RacedForGood DEF IInv
<1> QED
  BY <1>1, InitIInv, PTL DEF Spec

\* Every variable keeps its type (Session.go:19-27, YoutubeController.go:31-37).
THEOREM SessionTyped == Spec => []TypeOK
<1>1. IInv => TypeOK
  BY DEF IInv
<1> QED
  BY <1>1, SessionInvariant, PTL

\* No request follows a nil id, whatever failed before (Session.go:135-157).
THEOREM IdsAlwaysThere == Spec => []IdsAreThere
<1>1. IInv => IdsAreThere
  BY DEF IInv, IdsHeld, IdsAreThere
<1> QED
  BY <1>1, SessionInvariant, PTL

\* A binding serves one request, numbered from the start, unless two calls
\* shared a session (Session.go:114-126).
THEOREM RequestsNumbered == Spec => []NumbersStartOver
<1>1. IInv => NumbersStartOver
  BY DEF IInv, CountInv, PostedInOrder, NumbersStartOver
<1> QED
  BY <1>1, SessionInvariant, PTL
=============================================================================
