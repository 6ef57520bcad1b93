---------------------------- MODULE StartupProofs ----------------------------
(***************************************************************************)
(* Theorems about Startup, for any number of instances and of faults, and  *)
(* for any settings and layers that give them.                             *)
(***************************************************************************)
EXTENDS Startup, TLAPS

Named == ErrorQueues \cup {Exchange}

\* A declaration d is on its way to the broker, for instance i.
Travels(d, i) == \E k \in 1..Len(todo[i]) : todo[i][k] = d

\* What init is to declare is there or on its way.
UnderWay(i) ==
  /\ \A x \in Named : x \in declared \/ Travels(Declare(x), i)
  /\ \A q \in ErrorQueues : q \in bound \/ Travels(Bind(q), i)

Routable ==
  Exchange \in declared /\ ErrorQueues \subseteq declared /\ bound = ErrorQueues

\* What the stage of an instance says of the broker, of its consumers and of
\* its configuration.
StageInv(i) ==
  /\ stage[i] = "declaring" => UnderWay(i)
  /\ stage[i] \in {"subscribing", "running"} => Routable
  /\ stage[i] \notin {"subscribing", "running"} => consuming[i] = {}
  /\ stage[i] \notin {"starting", "down"} =>
       config[i] = Merged(sources) /\ Accepted(sources)

StartupInv == StartupTypeOK /\ \A i \in Instances : StageInv(i)

\* What i does adds to what the broker has, and leaves instance j alone.
Leaves(j) ==
  /\ declared \subseteq declared' /\ bound \subseteq bound'
  /\ UNCHANGED <<sources, stage[j], todo[j], consuming[j], config[j]>>

-----------------------------------------------------------------------------
\* The seven declarations of init are well formed.
LEMMA DeclarationsType == Declarations \in Seq(Declaration)
<1>1. /\ Declare("notifications") \in Declaration
      /\ \A q \in {"error_callbacks", "error_emails", "error_pushes"} :
           Declare(q) \in Declaration /\ Bind(q) \in Declaration
  BY DEF Declare, Bind, Declaration, Named, ErrorQueues, Exchange
<1>2. Exchange = "notifications"
  BY DEF Exchange
<1> QED BY <1>1, <1>2 DEF Declarations

\* They declare the exchange and every error queue, and bind every queue.
LEMMA DeclarationsComplete ==
  /\ \A x \in Named : \E k \in 1..Len(Declarations) : Declarations[k] = Declare(x)
  /\ \A q \in ErrorQueues : \E k \in 1..Len(Declarations) : Declarations[k] = Bind(q)
<1>1. /\ Len(Declarations) = 7
      /\ Declarations[1] = Declare(Exchange)
      /\ Declarations[2] = Declare("error_callbacks")
      /\ Declarations[3] = Bind("error_callbacks")
      /\ Declarations[4] = Declare("error_emails")
      /\ Declarations[5] = Bind("error_emails")
      /\ Declarations[6] = Declare("error_pushes")
      /\ Declarations[7] = Bind("error_pushes")
  BY DEF Declarations
<1>2. {1, 2, 3, 4, 5, 6, 7} \subseteq 1..Len(Declarations)
  BY <1>1
<1> QED BY <1>1, <1>2 DEF Named, ErrorQueues

\* The configuration that is read gives every setting a layer or none.
LEMMA MergedType ==
  ASSUME sources \in Sources
  PROVE  Merged(sources) \in [Settings -> Layers \cup {"none"}]
BY DEF Merged, Merge, Unset, Layers

\* ... and it is the strongest layer that gives it (config.rs).
LEMMA MergedIsStrongest ==
  ASSUME sources \in Sources, Accepted(sources), NEW s \in Settings
  PROVE  LET givers == {l \in Layers : s \in sources[l]} IN
           IF givers = {} THEN s \in Optional
           ELSE /\ Merged(sources)[s] \in givers
                /\ \A l \in givers : Rank[l] <= Rank[Merged(sources)[s]]
<1> DEFINE givers == {l \in Layers : s \in sources[l]}
<1>1. Merged(sources)[s] =
        IF s \in sources["environment"] THEN "environment"
        ELSE IF s \in sources["secret"] THEN "secret"
        ELSE IF s \in sources["mode"] THEN "mode"
        ELSE IF s \in sources["base"] THEN "base" ELSE "none"
  BY DEF Merged, Merge, Unset
<1>2. CASE givers = {}
  <2>1. Merged(sources)[s] = "none"
    BY <1>1, <1>2 DEF Layers
  <2> QED BY <1>2, <2>1 DEF Accepted, Settings
<1>3. CASE givers # {}
  BY <1>1, <1>3 DEF Layers, Rank
<1> QED BY <1>2, <1>3

-----------------------------------------------------------------------------
\* The end of a process leaves a well-typed state.
LEMMA GoDownType ==
  ASSUME StartupTypeOK, NEW i \in Instances, GoDown(i), faults' \in 0..MaxFaults
  PROVE  StartupTypeOK'
<1>1. Unset \in [Settings -> Layers \cup {"none"}]
  BY DEF Unset
<1>2. <<>> \in Seq(Declaration)
  OBVIOUS
<1> QED BY <1>1, <1>2
        DEF GoDown, Goto, StartupTypeOK, Stages

\* Every step of an instance, and of the broker for it, is well typed.
LEMMA StartupTypeStep == StartupTypeOK /\ [StartupNext]_startupVars => StartupTypeOK'
<1> SUFFICES ASSUME StartupTypeOK, [StartupNext]_startupVars PROVE StartupTypeOK'
  OBVIOUS
<1> USE DEF StartupTypeOK, Goto, Stages, configVars
<1>0. CASE UNCHANGED startupVars
  BY <1>0 DEF startupVars
<1> SUFFICES ASSUME NEW i \in Instances, StartupStep(i) \/ Fail(i) \/ FallsSilent(i)
             PROVE  StartupTypeOK'
  BY <1>0 DEF StartupNext
<1>1. CASE Configure(i)
  BY <1>1, MergedType DEF Configure
<1>2. CASE ConfigFails(i)
  BY <1>2, GoDownType DEF ConfigFails
<1>3. CASE Prepare(i)
  BY <1>3 DEF Prepare
<1>4. CASE Connect(i)
  BY <1>4 DEF Connect
<1>5. CASE ConnectTimesOut(i)
  BY <1>5, GoDownType DEF ConnectTimesOut
<1>6. CASE OpenErrorChannel(i)
  BY <1>6, DeclarationsType DEF OpenErrorChannel
<1>7. CASE BrokerDeclares(i)
  <2>1. /\ todo[i] \in Seq(Declaration) /\ todo[i] # <<>>
    BY <1>7 DEF BrokerDeclares
  <2>2. Head(todo[i]) \in Declaration /\ Tail(todo[i]) \in Seq(Declaration)
    BY <2>1
  <2>3. /\ Head(todo[i]).what \in Named
        /\ Head(todo[i]).op = "bind" => Head(todo[i]).what \in ErrorQueues
    BY <2>2 DEF Declaration, Declare, Bind, Named
  <2>4. declared' \subseteq WorkQueues \cup ErrorQueues \cup {Exchange}
    BY <1>7, <2>3 DEF BrokerDeclares, Named
  <2>5. bound' \subseteq ErrorQueues
    BY <1>7, <2>3 DEF BrokerDeclares
  <2> QED BY <1>7, <2>2, <2>4, <2>5 DEF BrokerDeclares
<1>8. CASE InitDone(i)
  BY <1>8 DEF InitDone
<1>9. ASSUME NEW q \in WorkQueues, OpenChannel(i, q)
      PROVE  StartupTypeOK'
  BY <1>9 DEF OpenChannel
<1>10. ASSUME NEW q \in WorkQueues, DeclareWorkQueue(i, q)
       PROVE  StartupTypeOK'
  BY <1>10 DEF DeclareWorkQueue
<1>11. ASSUME NEW q \in WorkQueues, Consume(i, q)
       PROVE  StartupTypeOK'
  BY <1>11 DEF Consume
<1>12. CASE SpawnTasks(i)
  BY <1>12 DEF SpawnTasks
<1>13. CASE Restart(i)
  BY <1>13 DEF Restart
<1>14. CASE Fail(i)
  <2>1. faults' \in 0..MaxFaults
    BY <1>14, StartupAssumption DEF Fail
  <2> QED BY <1>14, <2>1, GoDownType DEF Fail
<1>15. CASE FallsSilent(i)
  <2>1. faults' \in 0..MaxFaults
    BY <1>15, StartupAssumption DEF FallsSilent
  <2> QED BY <1>15, <2>1 DEF FallsSilent
<1> QED BY <1>1, <1>2, <1>3, <1>4, <1>5, <1>6, <1>7, <1>8, <1>9, <1>10, <1>11,
           <1>12, <1>13, <1>14, <1>15 DEF StartupStep

-----------------------------------------------------------------------------
\* What is there stays there, and so does what is under way for j.
LEMMA LeftAlone ==
  ASSUME NEW j \in Instances, StageInv(j), Leaves(j), StartupTypeOK'
  PROVE  StageInv(j)'
<1> USE DEF Leaves
<1>1. UnderWay(j) => UnderWay(j)'
  BY DEF UnderWay, Travels
<1>2. Routable => Routable'
  BY DEF Routable, StartupTypeOK
<1> QED BY <1>1, <1>2 DEF StageInv

\* The broker handles one declaration of i: what is to be declared for i is
\* still there or on its way.
LEMMA DeclaringKeepsUnderWay ==
  ASSUME StartupTypeOK, NEW i \in Instances, BrokerDeclares(i), UnderWay(i)
  PROVE  UnderWay(i)'
<1> DEFINE d == Head(todo[i])
<1>1. /\ todo[i] \in Seq(Declaration) /\ todo[i] # <<>> /\ todo'[i] = Tail(todo[i])
      /\ declared \subseteq declared' /\ bound \subseteq bound'
      /\ d.op = "declare" => d.what \in declared'
      /\ d.op = "bind" => d.what \in bound'
  BY DEF StartupTypeOK, BrokerDeclares
<1>2. ASSUME NEW e, Travels(e, i), e # d
      PROVE  Travels(e, i)'
  <2>1. PICK k \in 1..Len(todo[i]) : todo[i][k] = e
    BY <1>2 DEF Travels
  <2>2. k # 1
    BY <1>1, <1>2, <2>1
  <2>3. k - 1 \in 1..Len(todo'[i]) /\ todo'[i][k - 1] = e
    BY <1>1, <2>1, <2>2
  <2> QED BY <2>3 DEF Travels
<1>3. ASSUME NEW x \in Named
      PROVE  x \in declared' \/ Travels(Declare(x), i)'
  <2>1. CASE Declare(x) = d
    BY <1>1, <2>1 DEF Declare
  <2>2. CASE Declare(x) # d
    BY <1>1, <1>2, <2>2 DEF UnderWay
  <2> QED BY <2>1, <2>2
<1>4. ASSUME NEW q \in ErrorQueues
      PROVE  q \in bound' \/ Travels(Bind(q), i)'
  <2>1. CASE Bind(q) = d
    BY <1>1, <2>1 DEF Bind
  <2>2. CASE Bind(q) # d
    BY <1>1, <1>2, <2>2 DEF UnderWay
  <2> QED BY <2>1, <2>2
<1> QED BY <1>3, <1>4 DEF UnderWay

\* What a step of i does to the others.
LEMMA StepLeavesOthers ==
  ASSUME StartupTypeOK, NEW i \in Instances, NEW j \in Instances \ {i},
         StartupStep(i) \/ Fail(i) \/ FallsSilent(i)
  PROVE  Leaves(j)
<1> USE DEF Leaves, StartupTypeOK, Goto, configVars
<1>1. CASE Configure(i)
  BY <1>1 DEF Configure
<1>2. CASE GoDown(i)
  BY <1>2 DEF GoDown
<1>3. CASE Prepare(i) \/ Connect(i) \/ InitDone(i) \/ SpawnTasks(i) \/ Restart(i)
  BY <1>3 DEF Prepare, Connect, InitDone, SpawnTasks, Restart
<1>4. CASE OpenErrorChannel(i)
  BY <1>4 DEF OpenErrorChannel
<1>5. CASE BrokerDeclares(i)
  BY <1>5 DEF BrokerDeclares
<1>6. ASSUME NEW q \in WorkQueues,
             OpenChannel(i, q) \/ DeclareWorkQueue(i, q) \/ Consume(i, q)
      PROVE  Leaves(j)
  BY <1>6 DEF OpenChannel, DeclareWorkQueue, Consume
<1>7. CASE FallsSilent(i)
  BY <1>7 DEF FallsSilent
<1> QED BY <1>1, <1>2, <1>3, <1>4, <1>5, <1>6, <1>7
        DEF StartupStep, ConfigFails, ConnectTimesOut, Fail

\* What a step of i does to what is known of i.
LEMMA StepKeepsStage ==
  ASSUME StartupTypeOK, NEW i \in Instances, StageInv(i), StartupTypeOK',
         StartupStep(i) \/ Fail(i) \/ FallsSilent(i)
  PROVE  StageInv(i)'
<1> USE DEF StageInv, StartupTypeOK, Goto, configVars
<1>1. CASE Configure(i)
  BY <1>1 DEF Configure
<1>2. CASE GoDown(i)
  BY <1>2 DEF GoDown
<1>3. CASE Prepare(i) \/ Connect(i) \/ Restart(i)
  BY <1>3 DEF Prepare, Connect, Restart
<1>4. CASE OpenErrorChannel(i)
  <2>1. todo'[i] = Declarations
    BY <1>4 DEF OpenErrorChannel
  <2>2. UnderWay(i)'
    BY <2>1, DeclarationsComplete DEF UnderWay, Travels
  <2> QED BY <1>4, <2>2 DEF OpenErrorChannel
<1>5. CASE BrokerDeclares(i)
  <2>1. UnderWay(i)'
    BY <1>5, DeclaringKeepsUnderWay DEF BrokerDeclares
  <2> QED BY <1>5, <2>1 DEF BrokerDeclares
<1>6. CASE InitDone(i)
  <2>1. UnderWay(i) /\ ~\E e : Travels(e, i)
    BY <1>6 DEF InitDone, Travels
  <2>2. Routable
    BY <2>1 DEF UnderWay, Routable, Named
  <2>3. Routable'
    BY <1>6, <2>2 DEF InitDone, Routable
  <2> QED BY <1>6, <2>3 DEF InitDone
<1>7. ASSUME NEW q \in WorkQueues,
             OpenChannel(i, q) \/ DeclareWorkQueue(i, q) \/ Consume(i, q)
      PROVE  StageInv(i)'
  <2>1. Routable'
    BY <1>7 DEF OpenChannel, DeclareWorkQueue, Consume, Routable
  <2> QED BY <1>7, <2>1
          DEF OpenChannel, DeclareWorkQueue, Consume
<1>8. CASE SpawnTasks(i)
  <2>1. Routable'
    BY <1>8 DEF SpawnTasks, Routable
  <2> QED BY <1>8, <2>1 DEF SpawnTasks
<1>9. CASE FallsSilent(i)
  <2>1. Leaves(i)
    BY <1>9 DEF FallsSilent, Leaves
  <2> QED BY <2>1, LeftAlone
<1> QED BY <1>1, <1>2, <1>3, <1>4, <1>5, <1>6, <1>7, <1>8, <1>9
        DEF StartupStep, ConfigFails, ConnectTimesOut, Fail

\* Before anything has happened no instance has any consumers.
LEMMA StartupInitInv == StartupInit => StartupInv
<1> SUFFICES ASSUME StartupInit PROVE StartupInv
  OBVIOUS
<1>1. StartupTypeOK
  <2>1. Unset \in [Settings -> Layers \cup {"none"}]
    BY DEF Unset
  <2>2. 0 \in 0..MaxFaults
    BY StartupAssumption
  <2> QED BY <2>1, <2>2 DEF StartupInit, StartupTypeOK, Stages
<1>2. \A i \in Instances : StageInv(i)
  BY DEF StartupInit, StageInv
<1> QED BY <1>1, <1>2 DEF StartupInv

\* Every step keeps the invariant.
LEMMA StartupInvStep == StartupInv /\ [StartupNext]_startupVars => StartupInv'
<1> SUFFICES ASSUME StartupInv, [StartupNext]_startupVars PROVE StartupInv'
  OBVIOUS
<1>1. StartupTypeOK'
  BY StartupTypeStep DEF StartupInv
<1>2. CASE UNCHANGED startupVars
  <2>1. \A j \in Instances : Leaves(j)
    BY <1>2 DEF startupVars, Leaves
  <2> QED BY <1>1, <2>1, LeftAlone DEF StartupInv
<1>3. ASSUME NEW i \in Instances, StartupStep(i) \/ Fail(i) \/ FallsSilent(i)
      PROVE  StartupInv'
  <2>1. \A j \in Instances \ {i} : StageInv(j)'
    BY <1>1, <1>3, StepLeavesOthers, LeftAlone DEF StartupInv
  <2>2. StageInv(i)'
    BY <1>1, <1>3, StepKeepsStage DEF StartupInv
  <2> QED BY <1>1, <2>1, <2>2 DEF StartupInv
<1> QED BY <1>2, <1>3 DEF StartupNext

\* The invariant of the startup (lib.rs, transactions_publisher.rs).
THEOREM StartupInvariant == StartupSpec => []StartupInv
<1> QED BY StartupInitInv, StartupInvStep, PTL DEF StartupSpec

\* Every reachable state of the startups is well typed.
THEOREM StartupTypeCorrect == StartupSpec => []StartupTypeOK
<1>1. StartupInv => StartupTypeOK
  BY DEF StartupInv
<1> QED BY <1>1, StartupInvariant, PTL

(***************************************************************************)
(* However many instances start at once, on whatever an earlier failed     *)
(* startup has left, and wherever they fail: an instance that consumes has *)
(* the exchange and the bound error queues (transactions_publisher.rs,     *)
(* init, before consumer.subscribe in lib.rs).                             *)
(***************************************************************************)
THEOREM ErrorsAlwaysRoutable == StartupSpec => []ErrorsAreRoutable
<1>1. StartupInv => ErrorsAreRoutable
  BY DEF StartupInv, StageInv, Routable, ErrorsAreRoutable
<1> QED BY <1>1, StartupInvariant, PTL

(***************************************************************************)
(* For any settings, and any layers that give them: an instance that got   *)
(* past get_config has every required setting, and each from the strongest *)
(* layer that gives it (config.rs).                                        *)
(***************************************************************************)
THEOREM StrongestLayerAlwaysWins == StartupSpec => []StrongestLayerWins
<1>1. ASSUME StartupInv PROVE StrongestLayerWins
  <2> SUFFICES ASSUME NEW i \in Instances, NEW s \in Settings,
                      stage[i] \notin {"starting", "down"}
               PROVE  LET givers == {l \in Layers : s \in sources[l]} IN
                        IF givers = {} THEN s \in Optional
                        ELSE /\ config[i][s] \in givers
                             /\ \A l \in givers : Rank[l] <= Rank[config[i][s]]
    BY DEF StrongestLayerWins
  <2>1. sources \in Sources /\ Accepted(sources) /\ config[i] = Merged(sources)
    BY <1>1 DEF StartupInv, StartupTypeOK, StageInv
  <2> QED BY <2>1, MergedIsStrongest
<1> QED BY <1>1, StartupInvariant, PTL
=============================================================================
