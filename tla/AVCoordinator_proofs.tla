------------------------- MODULE AVCoordinator_proofs -------------------------
(***************************************************************************)
(* What the device coordinator and its profile transaction keep true, for  *)
(* every number of devices, endpoints, roles and profiles, and however     *)
(* often the helper fails and the world changes the devices.               *)
(***************************************************************************)
EXTENDS AVCoordinator, SequenceTheorems, TLAPS

-----------------------------------------------------------------------------
(* Fields                                                                   *)

LEMMA MuteName == ASSUME NEW f, NEW e
                  PROVE  Mute(f, e)[1] = "mute" /\ Mute(f, e)[2] = f /\ Mute(f, e)[3] = e
BY DEF Mute

LEMMA LevelName == ASSUME NEW f, NEW e
                   PROVE  Level(f, e)[1] = "level" /\ Level(f, e)[2] = f /\ Level(f, e)[3] = e
BY DEF Level

LEMMA RouteName == ASSUME NEW f, NEW r
                   PROVE  Route(f, r)[1] = "route" /\ Route(f, r)[2] = f /\ Route(f, r)[3] = r
BY DEF Route

LEMMA CameraName == Camera[1] = "camera" /\ Camera[2] = "camera"
BY DEF Camera

\* The four kinds of field.
LEMMA FieldKinds ==
  ASSUME NEW x \in Fields
  PROVE  \/ x[1] = "mute" /\ x[2] \in FlowSet /\ x[3] \in Endpoints /\ x = Mute(x[2], x[3])
         \/ x[1] = "level" /\ x[2] \in FlowSet /\ x[3] \in Endpoints /\ x = Level(x[2], x[3])
         \/ x[1] = "route" /\ x[2] \in FlowSet /\ x[3] \in RoleSet /\ x = Route(x[2], x[3])
         \/ x[1] = "camera" /\ x[2] = "camera" /\ x = Camera
BY DEF Fields, Mute, Level, Route, Camera

LEMMA FieldMembers ==
  /\ \A f \in FlowSet, e \in Endpoints : Mute(f, e) \in Fields /\ Level(f, e) \in Fields
  /\ \A f \in FlowSet, r \in RoleSet : Route(f, r) \in Fields
  /\ Camera \in Fields
BY DEF Fields

LEMMA ValuesOf ==
  ASSUME NEW x
  PROVE  /\ x[1] = "mute" => Values(x) = BOOLEAN
         /\ x[1] = "level" => Values(x) = Levels
         /\ x[1] = "route" => Values(x) = Endpoints \cup {None}
         /\ x[1] = "camera" => Values(x) = [source : Cameras, on : BOOLEAN]
<1>1. CASE x[1] = "mute"
  BY <1>1 DEF Values
<1>2. CASE x[1] = "level"
  BY <1>2 DEF Values
<1>3. CASE x[1] = "route"
  BY <1>3 DEF Values
<1>4. CASE x[1] = "camera"
  BY <1>4 DEF Values
<1> QED BY <1>1, <1>2, <1>3, <1>4

LEMMA FieldValues ==
  /\ \A f, e : Values(Mute(f, e)) = BOOLEAN /\ Values(Level(f, e)) = Levels
  /\ \A f, r : Values(Route(f, r)) = Endpoints \cup {None}
  /\ Values(Camera) = [source : Cameras, on : BOOLEAN]
<1>1. ASSUME NEW f, NEW e PROVE Values(Mute(f, e)) = BOOLEAN /\ Values(Level(f, e)) = Levels
  BY MuteName, LevelName, ValuesOf
<1>2. ASSUME NEW f, NEW r PROVE Values(Route(f, r)) = Endpoints \cup {None}
  BY RouteName, ValuesOf
<1>3. Values(Camera) = [source : Cameras, on : BOOLEAN]
  BY CameraName, ValuesOf
<1> QED BY <1>1, <1>2, <1>3

LEMMA ValuesAreValues == ASSUME NEW x \in Fields PROVE Values(x) \subseteq AnyValue
<1>1. \/ Values(x) = BOOLEAN \/ Values(x) = Levels \/ Values(x) = Endpoints \cup {None}
      \/ Values(x) = [source : Cameras, on : BOOLEAN]
  BY FieldKinds, ValuesOf
<1> QED BY <1>1 DEF AnyValue

\* An inventory gives every field a value of its kind and a revision from one.
Inventory(h) ==
  /\ h = [x \in Fields |-> [v |-> h[x].v, rev |-> h[x].rev]]
  /\ \A x \in Fields : h[x].v \in Values(x) /\ h[x].rev \in Nat \ {0}

\* What writing a field does to an inventory.
LEMMA SetFacts ==
  ASSUME Inventory(hw), NEW x \in Fields, NEW v \in Values(x)
  PROVE  /\ Inventory(Set(x, v))
         /\ \A y \in Fields \ {x} : Set(x, v)[y] = hw[y]
         /\ Set(x, v)[x].v = v
         /\ hw[x].v = v => Set(x, v)[x].rev = hw[x].rev
         /\ hw[x].v # v => Set(x, v)[x].rev = hw[x].rev + 1
<1> DEFINE cell == [v |-> v, rev |-> hw[x].rev + (IF hw[x].v = v THEN 0 ELSE 1)]
<1>1. Set(x, v) = [hw EXCEPT ![x] = cell]
  BY DEF Set
<1>2. DOMAIN hw = Fields
  BY DEF Inventory
<1>3. cell.rev \in Nat \ {0}
  BY DEF Inventory
<1>4. /\ DOMAIN Set(x, v) = Fields
      /\ Set(x, v)[x] = cell
      /\ \A y \in Fields \ {x} : Set(x, v)[y] = hw[y]
  <2> HIDE DEF cell
  <2> QED BY <1>1, <1>2
<1>5. \A y \in Fields : Set(x, v)[y].v \in Values(y) /\ Set(x, v)[y].rev \in Nat \ {0}
  BY <1>3, <1>4 DEF Inventory
<1>6. \A y \in Fields : Set(x, v)[y] = [v |-> Set(x, v)[y].v, rev |-> Set(x, v)[y].rev]
  BY <1>4 DEF Inventory
<1>7. Set(x, v) = [y \in Fields |-> Set(x, v)[y]]
  <2> HIDE DEF cell
  <2> QED BY <1>1, <1>2
<1>8. Inventory(Set(x, v))
  BY <1>5, <1>6, <1>7 DEF Inventory
<1> QED BY <1>4, <1>8, <1>3 DEF Inventory

-----------------------------------------------------------------------------
(* The plan of a profile                                                    *)

\* What holds of every profile.
LEMMA ProfileTyped ==
  ASSUME NEW p \in Profiles
  PROVE  /\ p.endpoint \in Endpoints /\ p.camera \in Cameras /\ p.first \in RoleSet
         /\ p.levels \in BOOLEAN /\ p.level \in Levels
BY ProfileAssumption

FlowCount == Len(Flows)

LEMMA FlowFacts == /\ FlowCount \in Nat \ {0}
                   /\ \A i \in 1 .. FlowCount : Flows[i] \in FlowSet
                   /\ \A f \in FlowSet : \E i \in 1 .. FlowCount : Flows[i] = f
                   /\ \A i, j \in 1 .. FlowCount : Flows[i] = Flows[j] => i = j
                   /\ DOMAIN Flows = 1 .. FlowCount
<1>1. FlowCount \in Nat /\ DOMAIN Flows = 1 .. FlowCount
  BY DeviceAssumption DEF FlowCount
<1>2. FlowCount # 0
  BY DeviceAssumption, EmptySeq DEF FlowCount
<1> QED BY <1>1, <1>2, DeviceAssumption DEF FlowSet

\* A concatenation, by its two parts.
LEMMA Parts ==
  ASSUME NEW S, NEW s \in Seq(S), NEW t \in Seq(S)
  PROVE  /\ s \o t \in Seq(S)
         /\ Len(s \o t) = Len(s) + Len(t)
         /\ \A i \in 1 .. Len(s) : (s \o t)[i] = s[i]
         /\ \A i \in 1 .. Len(t) : (s \o t)[Len(s) + i] = t[i]
<1>1. Len(s) \in Nat /\ Len(t) \in Nat
  OBVIOUS
<1>2. /\ s \o t \in Seq(S)
      /\ Len(s \o t) = Len(s) + Len(t)
      /\ \A i \in 1 .. Len(s) + Len(t) : (s \o t)[i] = IF i <= Len(s) THEN s[i] ELSE t[i - Len(s)]
  BY ConcatProperties
<1> DEFINE c == s \o t
           m == Len(s)
           n == Len(t)
<1> HIDE DEF c, m, n
<1>3. m \in Nat /\ n \in Nat /\ \A i \in 1 .. m + n : c[i] = IF i <= m THEN s[i] ELSE t[i - m]
  BY <1>1, <1>2 DEF c, m, n
<1>4. \A i \in 1 .. m : c[i] = s[i]
  BY <1>3
<1>5. ASSUME NEW i \in 1 .. n PROVE c[m + i] = t[i]
  <2>1. m + i \in 1 .. m + n /\ ~(m + i <= m) /\ (m + i) - m = i
    BY <1>3
  <2> QED BY <2>1, <1>3
<1> QED BY <1>2, <1>4, <1>5 DEF c, m, n

\* Where the routes begin and end in the plan, and what each stage is.
LEMMA PlanShape ==
  ASSUME profile \in Profiles
  PROVE  LET n == FlowCount
             k == n * (RoleCount - profile.first)
         IN  /\ k \in Nat
             /\ Len(Plan) = 2 * n + k + 2
             /\ DOMAIN Plan = 1 .. Len(Plan)
             /\ \A i \in 1 .. 2 * n :
                  Plan[i] = Stage(IF i % 2 = 1 THEN "mute" ELSE "level", Flows[(i + 1) \div 2], None)
             /\ \A i \in 1 .. k :
                  Plan[2 * n + i] = Stage("route", Flows[((i - 1) % n) + 1], profile.first + ((i - 1) \div n))
             /\ Plan[2 * n + k + 1] = Stage("camera", "camera", None)
             /\ Plan[2 * n + k + 2] = Stage("verify", "camera", None)
<1> DEFINE n == FlowCount
           k == n * (RoleCount - profile.first)
           routes == RouteStages(profile.first)
<1>1. n \in Nat \ {0} /\ RoleCount - profile.first \in Nat
  BY FlowFacts, ProfileTyped, DeviceAssumption DEF RoleSet
<1>2. k \in Nat
  BY <1>1
<1>3. Len(AudioStages) = 2 * n /\ \A i \in 1 .. 2 * n :
        AudioStages[i] = Stage(IF i % 2 = 1 THEN "mute" ELSE "level", Flows[(i + 1) \div 2], None)
  BY <1>1 DEF AudioStages, FlowCount
<1>4. Len(routes) = k /\ \A i \in 1 .. k :
        routes[i] = Stage("route", Flows[((i - 1) % n) + 1], profile.first + ((i - 1) \div n))
  <2> DEFINE stage(i) == Stage("route", Flows[((i - 1) % n) + 1], profile.first + ((i - 1) \div n))
  <2>1. routes = [i \in 1 .. k |-> stage(i)]
    BY DEF RouteStages, FlowCount
  <2> HIDE DEF k, stage, routes
  <2>2. Len(routes) = k /\ \A i \in 1 .. k : routes[i] = stage(i)
    BY <2>1, <1>2
  <2> QED BY <2>2 DEF stage
<1> DEFINE S == {AudioStages[i] : i \in 1 .. 2 * n} \cup {routes[i] : i \in 1 .. k} \cup {Checks[1], Checks[2]}
<1>5. AudioStages \in Seq(S)
  <2>1. AudioStages = [i \in 1 .. 2 * n |-> AudioStages[i]]
    BY DEF AudioStages, FlowCount
  <2> DEFINE g == AudioStages
  <2> HIDE DEF g
  <2>2. 2 * n \in Nat /\ \A i \in 1 .. 2 * n : g[i] \in S
    BY <1>1 DEF g
  <2> HIDE DEF S, n
  <2>3. [i \in 1 .. 2 * n |-> g[i]] \in Seq(S)
    BY <2>2
  <2> QED BY <2>1, <2>3 DEF g
<1>6. routes \in Seq(S)
  <2>1. routes = [i \in 1 .. k |-> routes[i]]
    BY DEF RouteStages, FlowCount
  <2> DEFINE g == routes
  <2> HIDE DEF g
  <2>2. \A i \in 1 .. k : g[i] \in S
    BY DEF g
  <2> HIDE DEF S, n, k
  <2>3. [i \in 1 .. k |-> g[i]] \in Seq(S)
    BY <2>2, <1>2
  <2> QED BY <2>1, <2>3 DEF g
<1>7. Checks \in Seq(S) /\ Len(Checks) = 2 /\ Checks[1] = Stage("camera", "camera", None)
      /\ Checks[2] = Stage("verify", "camera", None)
  BY DEF Checks
<1> HIDE DEF S, k, routes
<1> DEFINE front == AudioStages \o routes
<1>8. front \in Seq(S) /\ Len(front) = 2 * n + k
      /\ (\A i \in 1 .. 2 * n : front[i] = AudioStages[i])
      /\ \A i \in 1 .. k : front[2 * n + i] = routes[i]
  <2>1. /\ front \in Seq(S) /\ Len(front) = Len(AudioStages) + Len(routes)
        /\ \A i \in 1 .. Len(AudioStages) : front[i] = AudioStages[i]
        /\ \A i \in 1 .. Len(routes) : front[Len(AudioStages) + i] = routes[i]
    <3> HIDE DEF n
    <3>1. front \in Seq(S) /\ Len(front) = Len(AudioStages) + Len(routes)
      BY <1>5, <1>6, Parts
    <3>2. \A i \in 1 .. Len(AudioStages) : front[i] = AudioStages[i]
      BY <1>5, <1>6, Parts
    <3>3. \A i \in 1 .. Len(routes) : front[Len(AudioStages) + i] = routes[i]
      BY <1>5, <1>6, Parts
    <3> QED BY <3>1, <3>2, <3>3
  <2> HIDE DEF front
  <2> QED BY <2>1, <1>1, <1>2, <1>3, <1>4
<1>9. Plan = front \o Checks
  BY DEF Plan, routes
<1> HIDE DEF front
<1>10. Plan \in Seq(S) /\ Len(Plan) = 2 * n + k + 2
       /\ (\A i \in 1 .. 2 * n + k : Plan[i] = front[i])
       /\ Plan[2 * n + k + 1] = Checks[1] /\ Plan[2 * n + k + 2] = Checks[2]
  <2>1. /\ Plan \in Seq(S) /\ Len(Plan) = Len(front) + Len(Checks)
        /\ \A i \in 1 .. Len(front) : Plan[i] = front[i]
        /\ \A i \in 1 .. Len(Checks) : Plan[Len(front) + i] = Checks[i]
    <3> HIDE DEF n
    <3>1. Plan \in Seq(S) /\ Len(Plan) = Len(front) + Len(Checks)
      BY <1>7, <1>8, <1>9, Parts
    <3>2. \A i \in 1 .. Len(front) : Plan[i] = front[i]
      BY <1>7, <1>8, <1>9, Parts
    <3>3. \A i \in 1 .. Len(Checks) : (front \o Checks)[Len(front) + i] = Checks[i]
      <4>1. front \in Seq(S) /\ Checks \in Seq(S)
        BY <1>7, <1>8
      <4> QED BY <4>1, Parts
    <3>4. \A i \in 1 .. Len(Checks) : Plan[Len(front) + i] = Checks[i]
      BY <3>3, <1>9
    <3> QED BY <3>1, <3>2, <3>4
  <2> QED BY <2>1, <1>1, <1>2, <1>7, <1>8
<1>11. \A i \in 1 .. k : Plan[2 * n + i] = routes[i]
  BY <1>1, <1>2, <1>8, <1>10
<1>12. \A i \in 1 .. 2 * n : Plan[i] = AudioStages[i]
  BY <1>1, <1>2, <1>8, <1>10
<1> QED BY <1>2, <1>3, <1>4, <1>7, <1>10, <1>11, <1>12 DEF k

RouteCount == FlowCount * (RoleCount - profile.first)

\* The four parts of the plan.
LEMMA PlanParts ==
  ASSUME profile \in Profiles
  PROVE  /\ DOMAIN Plan = 1 .. Len(Plan) /\ Len(Plan) \in Nat
         /\ RouteCount \in Nat /\ Len(Plan) = 2 * FlowCount + RouteCount + 2
         /\ \A i \in 1 .. 2 * FlowCount :
              /\ Plan[i].op = IF i % 2 = 1 THEN "mute" ELSE "level"
              /\ Plan[i].flow = Flows[(i + 1) \div 2]
              /\ (i + 1) \div 2 \in 1 .. FlowCount
         /\ \A i \in 1 .. RouteCount :
              /\ Plan[2 * FlowCount + i].op = "route"
              /\ Plan[2 * FlowCount + i].flow = Flows[((i - 1) % FlowCount) + 1]
              /\ Plan[2 * FlowCount + i].role = profile.first + ((i - 1) \div FlowCount)
              /\ ((i - 1) % FlowCount) + 1 \in 1 .. FlowCount
              /\ (i - 1) \div FlowCount \in 0 .. RoleCount - profile.first - 1
         /\ Plan[Len(Plan) - 1].op = "camera" /\ Plan[Len(Plan)].op = "verify"
<1>1. FlowCount \in Nat \ {0} /\ RoleCount - profile.first \in Nat
  BY FlowFacts, ProfileTyped, DeviceAssumption DEF RoleSet
<1> DEFINE n == FlowCount
           m == RoleCount - profile.first
           k == n * m
<1>2. /\ k \in Nat
      /\ Len(Plan) = 2 * n + k + 2
      /\ DOMAIN Plan = 1 .. Len(Plan)
      /\ \A i \in 1 .. 2 * n :
           Plan[i] = Stage(IF i % 2 = 1 THEN "mute" ELSE "level", Flows[(i + 1) \div 2], None)
      /\ \A i \in 1 .. k :
           Plan[2 * n + i] = Stage("route", Flows[((i - 1) % n) + 1], profile.first + ((i - 1) \div n))
      /\ Plan[2 * n + k + 1] = Stage("camera", "camera", None)
      /\ Plan[2 * n + k + 2] = Stage("verify", "camera", None)
  BY PlanShape
<1>3. RouteCount = k
  BY DEF RouteCount
<1>4. ASSUME NEW i \in 1 .. k
      PROVE  ((i - 1) % n) + 1 \in 1 .. n /\ (i - 1) \div n \in 0 .. m - 1
  <2>1. \A a, c, d \in Nat : d > 0 /\ a < d * c => a % d \in 0 .. d - 1 /\ a \div d \in 0 .. c - 1
    OBVIOUS
  <2> DEFINE j == i - 1
  <2>2. j \in Nat /\ j < n * m
    BY <1>2
  <2> HIDE DEF j, n, m
  <2>3. n \in Nat /\ n > 0 /\ m \in Nat
    BY <1>1 DEF n, m
  <2>4. j % n \in 0 .. n - 1 /\ j \div n \in 0 .. m - 1
    BY <2>1, <2>2, <2>3
  <2>5. (j % n) + 1 \in 1 .. n
    BY <2>3, <2>4
  <2> QED BY <2>4, <2>5 DEF j
<1>5. ASSUME NEW i \in 1 .. 2 * n PROVE (i + 1) \div 2 \in 1 .. n
  BY <1>1
<1> HIDE DEF k, n, m
<1>a. \A op, flow, r : /\ Stage(op, flow, r).op = op
                       /\ Stage(op, flow, r).flow = flow /\ Stage(op, flow, r).role = r
  BY DEF Stage
<1>6. ASSUME NEW i \in 1 .. 2 * n
      PROVE  /\ Plan[i].op = IF i % 2 = 1 THEN "mute" ELSE "level"
             /\ Plan[i].flow = Flows[(i + 1) \div 2]
  BY <1>2, <1>a
<1>7. ASSUME NEW i \in 1 .. k
      PROVE  /\ Plan[2 * n + i].op = "route"
             /\ Plan[2 * n + i].flow = Flows[((i - 1) % n) + 1]
             /\ Plan[2 * n + i].role = profile.first + ((i - 1) \div n)
  BY <1>2, <1>a
<1>8. Plan[2 * n + k + 1].op = "camera" /\ Plan[2 * n + k + 2].op = "verify"
  BY <1>2, <1>a
<1>9. n \in Nat /\ Len(Plan) \in Nat /\ Len(Plan) - 1 = 2 * n + k + 1
  BY <1>1, <1>2 DEF n
<1>10. n = FlowCount /\ m = RoleCount - profile.first
  BY DEF n, m
<1> QED BY <1>2, <1>3, <1>4, <1>5, <1>6, <1>7, <1>8, <1>9, <1>10

\* Every position is in one of the parts.
LEMMA PlanPosition ==
  ASSUME profile \in Profiles, NEW i \in DOMAIN Plan
  PROVE  \/ i \in 1 .. 2 * FlowCount
         \/ i - 2 * FlowCount \in 1 .. RouteCount /\ i = 2 * FlowCount + (i - 2 * FlowCount)
         \/ i = Len(Plan) - 1
         \/ i = Len(Plan)
<1> DEFINE L == Len(Plan)
<1>1. /\ i \in 1 .. L /\ L \in Nat /\ RouteCount \in Nat
      /\ L = 2 * FlowCount + RouteCount + 2 /\ FlowCount \in Nat
  BY PlanParts, FlowFacts
<1> HIDE DEF L
<1>2. \/ i \in 1 .. 2 * FlowCount
      \/ i - 2 * FlowCount \in 1 .. RouteCount /\ i = 2 * FlowCount + (i - 2 * FlowCount)
      \/ i = L - 1
      \/ i = L
  BY <1>1
<1> QED BY <1>2 DEF L

\* What a stage is about.
LEMMA PlanStages ==
  ASSUME profile \in Profiles, NEW i \in DOMAIN Plan
  PROVE  /\ Plan[i].op \in {"mute", "level", "route", "camera", "verify"}
         /\ Plan[i].op \in {"mute", "level", "route"} => Plan[i].flow \in FlowSet
         /\ Plan[i].op = "route" => Plan[i].role \in RoleSet /\ Plan[i].role >= profile.first
         /\ Plan[i].op = "verify" <=> i = Len(Plan)
<1> DEFINE L == Len(Plan)
<1>1. /\ i \in 1 .. L /\ L \in Nat /\ RouteCount \in Nat
      /\ L = 2 * FlowCount + RouteCount + 2 /\ FlowCount \in Nat
  BY PlanParts, FlowFacts
<1>2. CASE i \in 1 .. 2 * FlowCount
  <2>1. /\ Plan[i].op = IF i % 2 = 1 THEN "mute" ELSE "level"
        /\ Plan[i].flow = Flows[(i + 1) \div 2]
        /\ (i + 1) \div 2 \in 1 .. FlowCount
    BY <1>2, PlanParts
  <2>2. i # L
    BY <1>1, <1>2
  <2>3. Plan[i].flow \in FlowSet
    BY <2>1, FlowFacts
  <2> QED BY <2>1, <2>2, <2>3
<1>3. CASE i - 2 * FlowCount \in 1 .. RouteCount /\ i = 2 * FlowCount + (i - 2 * FlowCount)
  <2> DEFINE j == i - 2 * FlowCount
  <2>1. /\ Plan[i].op = "route"
        /\ Plan[i].flow = Flows[((j - 1) % FlowCount) + 1]
        /\ Plan[i].role = profile.first + ((j - 1) \div FlowCount)
        /\ ((j - 1) % FlowCount) + 1 \in 1 .. FlowCount
        /\ (j - 1) \div FlowCount \in 0 .. RoleCount - profile.first - 1
    <3> j \in 1 .. RouteCount /\ i = 2 * FlowCount + j
      BY <1>3
    <3> HIDE DEF j
    <3> QED BY PlanParts
  <2>2. i # L
    BY <1>1, <1>3
  <2>3. Plan[i].flow \in FlowSet
    BY <2>1, FlowFacts
  <2> DEFINE d == (j - 1) \div FlowCount
  <2>4. d \in 0 .. RoleCount - profile.first - 1 /\ Plan[i].role = profile.first + d
    BY <2>1
  <2> HIDE DEF d
  <2>5. Plan[i].role \in RoleSet /\ Plan[i].role >= profile.first
    BY <2>4, ProfileTyped, DeviceAssumption DEF RoleSet
  <2> QED BY <2>1, <2>2, <2>3, <2>5
<1>4. CASE i = L - 1
  BY <1>1, <1>4, PlanParts
<1>5. CASE i = L
  BY <1>5, PlanParts
<1> QED BY <1>2, <1>3, <1>4, <1>5, PlanPosition

\* Every flow has its mute and its level, and no route comes before a mute.
LEMMA PlanMutes ==
  ASSUME profile \in Profiles, NEW f \in FlowSet
  PROVE  /\ \E i \in DOMAIN Plan : Plan[i].op = "level" /\ Plan[i].flow = f
         /\ \E i \in DOMAIN Plan : Plan[i].op = "mute" /\ Plan[i].flow = f
<1>1. PICK c \in 1 .. FlowCount : Flows[c] = f
  BY FlowFacts
<1>2. FlowCount \in Nat /\ RouteCount \in Nat
  BY FlowFacts, PlanParts
<1>3. 2 * c \in 1 .. 2 * FlowCount /\ 2 * c - 1 \in 1 .. 2 * FlowCount
  BY <1>2
<1>4. (2 * c + 1) \div 2 = c /\ ((2 * c - 1) + 1) \div 2 = c /\ (2 * c) % 2 # 1 /\ (2 * c - 1) % 2 = 1
  OBVIOUS
<1>5. 2 * c \in DOMAIN Plan /\ 2 * c - 1 \in DOMAIN Plan
  BY <1>2, <1>3, PlanParts
<1>6. Plan[2 * c].op = "level" /\ Plan[2 * c].flow = f
  BY <1>1, <1>3, <1>4, PlanParts
<1>7. Plan[2 * c - 1].op = "mute" /\ Plan[2 * c - 1].flow = f
  <2> DEFINE i == 2 * c - 1
  <2>1. i \in 1 .. 2 * FlowCount /\ (i + 1) \div 2 = c /\ i % 2 = 1
    BY <1>3, <1>4
  <2> HIDE DEF i
  <2>2. Plan[i].op = "mute" /\ Plan[i].flow = f
    BY <2>1, <1>1, PlanParts
  <2> QED BY <2>2 DEF i
<1> QED BY <1>5, <1>6, <1>7

LEMMA MutesBeforeRoutes ==
  ASSUME profile \in Profiles, NEW i \in DOMAIN Plan, NEW j \in DOMAIN Plan,
         Plan[i].op = "mute", Plan[j].op = "route"
  PROVE  i < j
<1>1. FlowCount \in Nat /\ RouteCount \in Nat /\ Len(Plan) \in Nat
      /\ Len(Plan) = 2 * FlowCount + RouteCount + 2
      /\ Plan[Len(Plan) - 1].op = "camera" /\ Plan[Len(Plan)].op = "verify"
  BY FlowFacts, PlanParts
<1>2. i \in 1 .. 2 * FlowCount
  <2>1. CASE i - 2 * FlowCount \in 1 .. RouteCount /\ i = 2 * FlowCount + (i - 2 * FlowCount)
    <3> DEFINE k == i - 2 * FlowCount
    <3>1. k \in 1 .. RouteCount /\ i = 2 * FlowCount + k
      BY <2>1
    <3> HIDE DEF k
    <3>2. Plan[i].op = "route"
      BY <3>1, PlanParts
    <3> QED BY <3>2
  <2> QED BY <1>1, <2>1, PlanPosition
<1>3. j \notin 1 .. 2 * FlowCount
  BY PlanParts
<1>4. j > 2 * FlowCount
  BY <1>1, <1>3, PlanParts
<1> QED BY <1>1, <1>2, <1>4

\* Two mutes, two levels or two routes of the plan are of different settings.
LEMMA StagesDiffer ==
  ASSUME profile \in Profiles, NEW i \in DOMAIN Plan, NEW j \in DOMAIN Plan,
         Plan[i].op = Plan[j].op, Plan[i].op \in {"mute", "level", "route"},
         Plan[i].flow = Plan[j].flow,
         Plan[i].op = "route" => Plan[i].role = Plan[j].role
  PROVE  i = j
<1>1. FlowCount \in Nat \ {0} /\ RouteCount \in Nat /\ Len(Plan) \in Nat
      /\ Len(Plan) = 2 * FlowCount + RouteCount + 2
      /\ Plan[Len(Plan) - 1].op = "camera" /\ Plan[Len(Plan)].op = "verify"
  BY FlowFacts, PlanParts
<1>2. CASE Plan[i].op = "route"
  <2> DEFINE k == i - 2 * FlowCount
             l == j - 2 * FlowCount
             m == profile.first
  <2>1. k \in 1 .. RouteCount /\ l \in 1 .. RouteCount /\ i = 2 * FlowCount + k /\ j = 2 * FlowCount + l
    <3>1. i \notin 1 .. 2 * FlowCount /\ j \notin 1 .. 2 * FlowCount
      BY <1>2, PlanParts
    <3> QED BY <1>1, <1>2, <3>1, PlanPosition
  <2> HIDE DEF k, l
  <2>2. /\ Plan[i].flow = Flows[((k - 1) % FlowCount) + 1]
        /\ Plan[i].role = profile.first + ((k - 1) \div FlowCount)
        /\ ((k - 1) % FlowCount) + 1 \in 1 .. FlowCount
        /\ (k - 1) \div FlowCount \in 0 .. RoleCount - profile.first - 1
    BY <2>1, PlanParts
  <2>3. /\ Plan[j].flow = Flows[((l - 1) % FlowCount) + 1]
        /\ Plan[j].role = profile.first + ((l - 1) \div FlowCount)
        /\ ((l - 1) % FlowCount) + 1 \in 1 .. FlowCount
        /\ (l - 1) \div FlowCount \in 0 .. RoleCount - profile.first - 1
    BY <2>1, PlanParts
  <2>4. profile.first \in Int
    BY ProfileTyped DEF RoleSet
  <2> DEFINE ka == (k - 1) % FlowCount
             la == (l - 1) % FlowCount
             kb == (k - 1) \div FlowCount
             lb == (l - 1) \div FlowCount
  <2>5. ka + 1 \in 1 .. FlowCount /\ la + 1 \in 1 .. FlowCount /\ Flows[ka + 1] = Flows[la + 1]
    BY <2>2, <2>3
  <2>6. ka \in Int /\ la \in Int /\ kb \in Int /\ lb \in Int
    BY <1>1, <2>1
  <2>7. k - 1 = FlowCount * kb + ka /\ l - 1 = FlowCount * lb + la
    BY <1>1, <2>1
  <2>a. Plan[i].role = m + kb /\ Plan[j].role = m + lb
    BY <2>2, <2>3
  <2>b. m \in Int
    BY <2>4
  <2> HIDE DEF ka, la, kb, lb, m
  <2>8. m \in Int /\ m + kb = m + lb
    BY <1>2, <2>a, <2>b
  <2>9. ka + 1 = la + 1
    BY <2>5, FlowFacts
  <2>10. ka = la /\ kb = lb
    BY <2>6, <2>8, <2>9
  <2>11. k - 1 = l - 1
    BY <2>7, <2>10
  <2> QED BY <2>1, <2>11
<1>3. CASE Plan[i].op # "route"
  <2>1. i \in 1 .. 2 * FlowCount /\ j \in 1 .. 2 * FlowCount
    <3>1. ASSUME NEW q \in DOMAIN Plan, Plan[q].op \in {"mute", "level"} PROVE q \in 1 .. 2 * FlowCount
      <4>1. CASE q - 2 * FlowCount \in 1 .. RouteCount /\ q = 2 * FlowCount + (q - 2 * FlowCount)
        <5> DEFINE k == q - 2 * FlowCount
        <5>1. k \in 1 .. RouteCount /\ q = 2 * FlowCount + k
          BY <4>1
        <5> HIDE DEF k
        <5>2. Plan[q].op = "route"
          BY <5>1, PlanParts
        <5> QED BY <5>2, <3>1
      <4> QED BY <1>1, <3>1, <4>1, PlanPosition
    <3> QED BY <1>3, <3>1
  <2> DEFINE a == (i + 1) \div 2
             b == (j + 1) \div 2
  <2>2. /\ Plan[i].op = IF i % 2 = 1 THEN "mute" ELSE "level"
        /\ Plan[j].op = IF j % 2 = 1 THEN "mute" ELSE "level"
        /\ Plan[i].flow = Flows[a] /\ Plan[j].flow = Flows[b]
        /\ a \in 1 .. FlowCount /\ b \in 1 .. FlowCount
    BY <2>1, PlanParts
  <2>3. a = b
    <3> HIDE DEF a, b
    <3> QED BY <2>2, FlowFacts
  <2>4. i % 2 = 1 <=> j % 2 = 1
    BY <2>2
  <2>5. i \in Nat /\ j \in Nat /\ (i + 1) \div 2 = (j + 1) \div 2
    BY <2>1, <2>3, <1>1
  <2> QED BY <2>4, <2>5
<1> QED BY <1>2, <1>3

\* No two stages, the reading back apart, are about the same field.
LEMMA TargetsDiffer ==
  ASSUME profile \in Profiles, NEW i \in DOMAIN Plan, NEW j \in DOMAIN Plan,
         i # Len(Plan), j # Len(Plan), Target(Plan[i]) = Target(Plan[j])
  PROVE  i = j
<1> DEFINE s == Plan[i]
           t == Plan[j]
<1>1. s.op \in {"mute", "level", "route", "camera"} /\ t.op \in {"mute", "level", "route", "camera"}
  BY PlanStages
<1>2. \A u : /\ u.op = "mute" => Target(u) = Mute(u.flow, profile.endpoint)
             /\ u.op = "level" => Target(u) = Level(u.flow, profile.endpoint)
             /\ u.op = "route" => Target(u) = Route(u.flow, u.role)
             /\ u.op = "camera" => Target(u) = Camera
  BY DEF Target
<1>3. s.op = t.op
  BY <1>1, <1>2, MuteName, LevelName, RouteName, CameraName
<1>4. CASE s.op = "camera"
  <2>1. ASSUME NEW q \in DOMAIN Plan, Plan[q].op = "camera" PROVE q = Len(Plan) - 1
    <3>1. Plan[Len(Plan)].op = "verify"
      BY PlanParts
    <3>2. CASE q - 2 * FlowCount \in 1 .. RouteCount /\ q = 2 * FlowCount + (q - 2 * FlowCount)
      <4> DEFINE k == q - 2 * FlowCount
      <4>1. k \in 1 .. RouteCount /\ q = 2 * FlowCount + k
        BY <3>2
      <4> HIDE DEF k
      <4>2. Plan[q].op = "route"
        BY <4>1, PlanParts
      <4> QED BY <4>2, <2>1
    <3>3. CASE q \in 1 .. 2 * FlowCount
      BY <3>3, <2>1, PlanParts
    <3> QED BY <2>1, <3>1, <3>2, <3>3, PlanPosition
  <2> QED BY <2>1, <1>3, <1>4
<1>5. CASE s.op \in {"mute", "level", "route"}
  <2>1. s.flow = t.flow /\ (s.op = "route" => s.role = t.role)
    BY <1>2, <1>3, <1>5, MuteName, LevelName, RouteName
  <2> QED BY <2>1, <1>3, <1>5, StagesDiffer
<1> QED BY <1>1, <1>4, <1>5

-----------------------------------------------------------------------------
(* Types and control                                                        *)

CallTyped(c) == /\ c \in Calls
                /\ c.op = "set" => c.field \in Fields /\ c.v \in Values(c.field)
                /\ c.op # "set" => c.stage = "sent"

HelperTypes ==
  /\ Inventory(hw)
  /\ seen = [hw |-> seen.hw, gone |-> seen.gone, known |-> seen.known] /\ Inventory(seen.hw)
  /\ who \in [Fields -> {"none", "redxe", "other"}]
  /\ DOMAIN was \subseteq Fields /\ \A x \in DOMAIN was : was[x] \in Values(x)
  /\ blind \subseteq Fields
  /\ call # None => CallTyped(call)
  /\ answer \in {"none", "ok", "failed", "lost"}

Results == {"ok", "failed", "lost", "late", "superseded"}
Outcomes == [result : Results, applied : BOOLEAN, whole : BOOLEAN, known : BOOLEAN]

EntryTyped(e) == /\ e \in Entries
                 /\ e.old \in Values(e.field)

TxTypes ==
  /\ profile \in Profiles
  /\ step \in Nat \ {0}
  /\ entry # None => EntryTyped(entry)
  /\ undo \in Seq(Entries) /\ \A i \in DOMAIN undo : EntryTyped(undo[i])
  /\ outcome \in Outcomes

\* A lane holds commands for its own device; a level never follows a profile.
CommandTyped(c) == /\ c \in Commands /\ c.v \in Values(c.field)
                   /\ c.follow => c.field[1] \in {"mute", "camera"}

LaneTyped(l, c) == /\ CommandTyped(c)
                   /\ c.field[2] = l.dev
                   /\ l.op = "switch" => c.field[1] \in {"mute", "camera"}
                   /\ l.op = "level" => c.field[1] = "level" /\ ~c.follow

AskedTyped(q) ==
  /\ q = [lane |-> q.lane, profile |-> q.profile, busy |-> q.busy, observe |-> q.observe, stop |-> q.stop]
  /\ q.lane = [l \in Lanes |-> q.lane[l]]
  /\ \A l \in Lanes : q.lane[l] # None => LaneTyped(l, q.lane[l])
  /\ q.profile # None => q.profile \in Profiles
  /\ q.busy \in BOOLEAN

CoordinatorTypes ==
  /\ AskedTyped(asked)
  /\ running # None => CommandTyped(running)
  /\ role \in RoleSet
  /\ shown = [inv |-> shown.inv, role |-> shown.role] /\ shown.role \in RoleSet
  /\ shown.inv = [hw |-> shown.inv.hw, gone |-> shown.inv.gone, known |-> shown.inv.known]
  /\ Inventory(shown.inv.hw)

TypeOK == HelperTypes /\ TxTypes /\ CoordinatorTypes

\* Which command is out, and what waits for its answer.
StageCall ==
  /\ step \in DOMAIN Plan
  /\ call = None /\ answer = "none" => entry = None
  /\ call # None \/ answer # "none" =>
       /\ entry = None <=> Now.op = "verify"
       /\ entry # None => entry.field = Target(Now)
  /\ call # None =>
       /\ entry = None => call.op = "observe"
       /\ entry # None => /\ call.op = "set" /\ call.field = entry.field
                          /\ call.v = Wanted(Now) /\ call.rev = entry.rev

ControlInv ==
  /\ at \in {"idle", "queued", "taken", "first", "stage", "rollback", "done",
             "follow", "command", "observe", "suspend", "finished", "suspended"}
  /\ at \in {"idle", "queued", "taken", "finished", "suspended", "done"} => call = None /\ answer = "none"
  /\ call # None => answer = "none"
  /\ call # None /\ at \in {"first", "follow", "observe"} => call.op = "observe"
  /\ call # None /\ at = "suspend" => call.op = "suspend"
  /\ call # None /\ at \in {"command", "rollback"} => call.op = "set"
  /\ at \in {"follow", "command"} => running # None
  /\ at = "follow" => running.follow
  /\ call # None /\ at = "command" => call.field = running.field /\ call.v = running.v
  /\ at = "stage" => StageCall
  /\ at # "stage" => entry = None
  /\ at \notin {"stage", "rollback", "done"} => undo = <<>>
  /\ at \in {"first", "stage", "rollback"} => ~outcome.applied
  /\ at = "first" => step = 1


\* What the steps of the UI thread leave alone: all but what is asked for.
Still == UNCHANGED <<hw, gone, who, helper, watching, call, answer, seen, was, blind, raced, time,
                     profile, step, entry, undo, leaves, outcome, role, running, shown>>

Queues == at' = at \/ (at = "idle" /\ at' = "queued")

LEMMA LaneKinds ==
  ASSUME NEW l \in Lanes
  PROVE  /\ l.op \in {"switch", "level"}
         /\ l.op = "switch" => l.dev \in Devices
         /\ l.op = "level" => l.dev \in FlowSet
BY DEF Lanes

LEMMA NothingTyped == AskedTyped(Nothing)
BY DEF AskedTyped, Nothing, NoLanes

LEMMA LaneSet ==
  ASSUME NEW q, AskedTyped(q), NEW l \in Lanes, NEW c, c # None => LaneTyped(l, c)
  PROVE  AskedTyped([q EXCEPT !.lane[l] = c])
<1> DEFINE r == [q EXCEPT !.lane[l] = c]
<1>1. /\ r = [lane |-> r.lane, profile |-> r.profile, busy |-> r.busy, observe |-> r.observe, stop |-> r.stop]
      /\ r.lane = [q.lane EXCEPT ![l] = c] /\ r.profile = q.profile /\ r.busy = q.busy
  BY DEF AskedTyped
<1>2. r.lane = [m \in Lanes |-> r.lane[m]]
  BY <1>1 DEF AskedTyped
<1>3. \A m \in Lanes : r.lane[m] = IF m = l THEN c ELSE q.lane[m]
  BY <1>1 DEF AskedTyped
<1> HIDE DEF r
<1>4. \A m \in Lanes : r.lane[m] # None => LaneTyped(m, r.lane[m])
  BY <1>3 DEF AskedTyped
<1>5. AskedTyped(r)
  BY <1>1, <1>2, <1>4 DEF AskedTyped
<1> QED BY <1>5 DEF r

LEMMA ScheduleTyped ==
  ASSUME NEW q, AskedTyped(q), NEW b \in BOOLEAN, Schedule(b, q)
  PROVE  /\ AskedTyped(asked')
         /\ at' = IF b THEN at ELSE at'
         /\ ~b => at' \in {"idle", "queued"}
BY NothingTyped DEF Schedule

LEMMA SubmitStep ==
  ASSUME TypeOK, NEW l \in Lanes, NEW field \in Fields, NEW v \in Values(field), NEW rev \in Nat,
         field[2] = l.dev,
         l.op = "switch" => field[1] \in {"mute", "camera"},
         l.op = "level" => field[1] = "level",
         Submit(l, field, v, rev)
  PROVE  Still /\ Queues /\ AskedTyped(asked')
<1> DEFINE c == [field |-> field, v |-> v, rev |-> rev, follow |-> asked.busy]
           q == [asked EXCEPT !.lane[l] = c]
<1>1. AskedTyped(asked)
  BY DEF TypeOK, CoordinatorTypes
<1>2. CommandTyped(c)
  <2>1. c \in Commands
    BY <1>1, ValuesAreValues DEF Commands, AskedTyped
  <2>2. c.follow => l.op # "level"
    BY DEF Submit
  <2> QED BY <2>1, <2>2, LaneKinds DEF CommandTyped
<1>3. LaneTyped(l, c)
  <2>1. l.op = "level" => ~c.follow
    BY DEF Submit
  <2> QED BY <1>2, <2>1 DEF LaneTyped
<1>4. AskedTyped(q)
  <2> HIDE DEF c
  <2> QED BY <1>1, <1>3, LaneSet
<1>5. Schedule(InFlight, q)
  BY DEF Submit
<1>6. AskedTyped(asked') /\ Queues
  <2> HIDE DEF q
  <2> QED BY <1>4, <1>5, ScheduleTyped DEF Queues, InFlight
<1>7. Still
  BY DEF Submit, Still, OnUi, world, link, histories
<1> QED BY <1>6, <1>7

LEMMA InventoryCell ==
  ASSUME NEW h, Inventory(h), NEW x \in Fields
  PROVE  h[x].v \in Values(x) /\ h[x].rev \in Nat /\ h[x].rev # 0
BY DEF Inventory

LEMMA RouteValue ==
  ASSUME NEW h, Inventory(h), NEW f \in FlowSet, NEW r \in RoleSet
  PROVE  h[Route(f, r)].v \in Endpoints \cup {None}
BY InventoryCell, FieldMembers, FieldValues

LEMMA FlowsAreDevices == \A f \in FlowSet : f \in Devices /\ f # "camera"
BY DeviceAssumption DEF Devices

\* A request for anything but a lane.
LEMMA AskedSet ==
  ASSUME NEW q, AskedTyped(q), NEW r, r.lane = q.lane,
         r = [lane |-> r.lane, profile |-> r.profile, busy |-> r.busy, observe |-> r.observe, stop |-> r.stop],
         r.profile # None => r.profile \in Profiles, r.busy \in BOOLEAN
  PROVE  AskedTyped(r)
BY DEF AskedTyped

LEMMA AskedObserve ==
  ASSUME NEW q, AskedTyped(q), NEW x, NEW y
  PROVE  AskedTyped([q EXCEPT !.observe = x, !.stop = y])
<1> DEFINE r == [q EXCEPT !.observe = x, !.stop = y]
<1> DEFINE r1 == [q EXCEPT !.observe = x]
<1>a. q = [lane |-> q.lane, profile |-> q.profile, busy |-> q.busy, observe |-> q.observe, stop |-> q.stop]
  BY DEF AskedTyped
<1>1. r1 = [lane |-> q.lane, profile |-> q.profile, busy |-> q.busy, observe |-> x, stop |-> q.stop]
  BY <1>a
<1>b. r = [r1 EXCEPT !.stop = y]
  BY <1>a
<1> HIDE DEF r1, r
<1>2. r = [lane |-> q.lane, profile |-> q.profile, busy |-> q.busy, observe |-> x, stop |-> y]
  BY <1>1, <1>b
<1>3. /\ r = [lane |-> r.lane, profile |-> r.profile, busy |-> r.busy, observe |-> r.observe, stop |-> r.stop]
      /\ r.lane = q.lane /\ r.profile = q.profile /\ r.busy = q.busy
  BY <1>2
<1>4. (q.profile # None => q.profile \in Profiles) /\ q.busy \in BOOLEAN
  BY DEF AskedTyped
<1>5. AskedTyped(r)
  BY <1>3, <1>4, AskedSet
<1> QED BY <1>5 DEF r

LEMMA UserStep ==
  ASSUME TypeOK, ControlInv, User
  PROVE  Still /\ Queues /\ AskedTyped(asked')
<1>1. AskedTyped(asked) /\ Inventory(shown.inv.hw) /\ shown.role \in RoleSet
  BY DEF TypeOK, CoordinatorTypes
<1>2. ASSUME NEW f \in FlowSet, Toggle(f) PROVE Still /\ Queues /\ AskedTyped(asked')
  <2> DEFINE l == [op |-> "switch", dev |-> f]
             field == Mute(f, Shown(f))
             v == ~shown.inv.hw[field].v
             rev == shown.inv.hw[field].rev
  <2>1. Submit(l, field, v, rev)
    BY <1>2 DEF Toggle
  <2>2. Shown(f) \in Endpoints
    BY <1>1, <1>2, RouteValue DEF Toggle, Present, Shown
  <2>3. field \in Fields /\ field[1] = "mute" /\ field[2] = f /\ Values(field) = BOOLEAN
    BY <2>2, FieldMembers, MuteName, FieldValues
  <2>4. l \in Lanes /\ l.dev = f /\ l.op = "switch"
    BY FlowsAreDevices DEF Lanes
  <2> HIDE DEF field, l
  <2>5. v \in BOOLEAN /\ rev \in Nat
    BY <1>1, <2>3, InventoryCell
  <2> HIDE DEF v, rev
  <2> QED BY <2>1, <2>3, <2>4, <2>5, SubmitStep
<1>3. ASSUME NEW f \in FlowSet, NEW v \in Levels, Slide(f, v) PROVE Still /\ Queues /\ AskedTyped(asked')
  <2> DEFINE l == [op |-> "level", dev |-> f]
             field == Level(f, Shown(f))
             rev == shown.inv.hw[field].rev
  <2>1. Submit(l, field, v, rev)
    BY <1>3 DEF Slide
  <2>2. Shown(f) \in Endpoints
    BY <1>1, <1>3, RouteValue DEF Slide, Present, Shown
  <2>3. field \in Fields /\ field[1] = "level" /\ field[2] = f /\ Values(field) = Levels
    BY <2>2, FieldMembers, LevelName, FieldValues
  <2>4. l \in Lanes /\ l.dev = f /\ l.op = "level"
    BY DEF Lanes
  <2> HIDE DEF field, l
  <2>5. v \in Values(field) /\ rev \in Nat
    BY <1>1, <2>3, InventoryCell
  <2> HIDE DEF rev
  <2> QED BY <2>1, <2>3, <2>4, <2>5, SubmitStep
<1>4. CASE ToggleCamera
  <2> DEFINE l == [op |-> "switch", dev |-> "camera"]
             c == shown.inv.hw[Camera]
             v == [c.v EXCEPT !.on = ~@]
             rev == c.rev
  <2>1. Submit(l, Camera, v, rev)
    BY <1>4 DEF ToggleCamera
  <2>2. Camera \in Fields /\ Values(Camera) = [source : Cameras, on : BOOLEAN]
    BY FieldMembers, FieldValues
  <2>3. c.v \in [source : Cameras, on : BOOLEAN] /\ c.rev \in Nat
    BY <1>1, <2>2, InventoryCell
  <2>4. v \in Values(Camera)
    BY <2>2, <2>3
  <2>5. l \in Lanes /\ l.dev = "camera" /\ l.op = "switch"
    BY DEF Lanes, Devices
  <2> HIDE DEF v, rev, l
  <2>6. rev \in Nat
    BY <2>3 DEF rev
  <2> QED BY <2>1, <2>2, <2>4, <2>5, <2>6, SubmitStep, CameraName
<1>5. ASSUME NEW p \in Profiles, SubmitProfile(p) PROVE Still /\ Queues /\ AskedTyped(asked')
  <2> DEFINE q == [asked EXCEPT !.profile = p, !.busy = TRUE,
                     !.lane = [l \in Lanes |-> IF l.op = "level" THEN None ELSE @[l]]]
  <2>1. Schedule(InFlight, q)
    BY <1>5 DEF SubmitProfile
  <2>2. AskedTyped(q)
    <3> DEFINE lanes == [l \in Lanes |-> IF l.op = "level" THEN None ELSE asked.lane[l]]
    <3>1. /\ q = [lane |-> q.lane, profile |-> q.profile, busy |-> q.busy,
                  observe |-> q.observe, stop |-> q.stop]
          /\ q.lane = lanes /\ q.profile = p /\ q.busy = TRUE
      <4>1. asked = [lane |-> asked.lane, profile |-> asked.profile, busy |-> asked.busy,
                     observe |-> asked.observe, stop |-> asked.stop]
        BY <1>1 DEF AskedTyped
      <4> DEFINE q1 == [asked EXCEPT !.profile = p]
                 q2 == [q1 EXCEPT !.busy = TRUE]
      <4>3. q1 = [lane |-> asked.lane, profile |-> p, busy |-> asked.busy,
                  observe |-> asked.observe, stop |-> asked.stop]
        BY <4>1
      <4>4. q = [q2 EXCEPT !.lane = lanes]
        BY <4>1
      <4> HIDE DEF q1, q, lanes
      <4>5. q2 = [lane |-> asked.lane, profile |-> p, busy |-> TRUE,
                  observe |-> asked.observe, stop |-> asked.stop]
        <5>1. \A b : [q1 EXCEPT !.busy = b]
                = [lane |-> asked.lane, profile |-> p, busy |-> b,
                   observe |-> asked.observe, stop |-> asked.stop]
          BY <4>3
        <5> QED BY <5>1, Zenon
      <4> HIDE DEF q2
      <4>6. q = [lane |-> lanes, profile |-> p, busy |-> TRUE,
                 observe |-> asked.observe, stop |-> asked.stop]
        BY <4>4, <4>5
      <4> QED BY <4>6
    <3> HIDE DEF q
    <3>2. lanes = [l \in Lanes |-> lanes[l]]
      OBVIOUS
    <3>3. \A l \in Lanes : lanes[l] # None => LaneTyped(l, lanes[l])
      BY <1>1 DEF AskedTyped
    <3> HIDE DEF lanes
    <3> QED BY <3>1, <3>2, <3>3 DEF AskedTyped
  <2> HIDE DEF q
  <2>3. AskedTyped(asked') /\ Queues
    BY <2>1, <2>2, ScheduleTyped DEF Queues, InFlight
  <2> QED BY <1>5, <2>3 DEF SubmitProfile, Still, OnUi, world, link, histories
<1>6. CASE SetSubscriberVisible
  <2>1. CASE visible
    <3> DEFINE q == [asked EXCEPT !.observe = FALSE, !.stop = TRUE]
    <3>1. Schedule(InFlight, q)
      BY <1>6, <2>1 DEF SetSubscriberVisible
    <3>2. AskedTyped(q)
    BY <1>1, AskedObserve
    <3> HIDE DEF q
    <3>3. AskedTyped(asked') /\ Queues
      BY <3>1, <3>2, ScheduleTyped DEF Queues, InFlight
    <3> QED BY <1>6, <3>3 DEF SetSubscriberVisible, Still, OnUi, world, link, histories
  <2>2. CASE ~visible
    BY <1>1, <1>6, <2>2 DEF SetSubscriberVisible, Still, Queues, OnUi, world, link, histories
  <2> QED BY <2>1, <2>2
<1> QED BY <1>2, <1>3, <1>4, <1>5, <1>6 DEF User

LEMMA UiStep ==
  ASSUME TypeOK, ControlInv, User \/ Prepare \/ Changed
  PROVE  Still /\ Queues /\ AskedTyped(asked')
<1>1. AskedTyped(asked)
  BY DEF TypeOK, CoordinatorTypes
<1>2. CASE User
  BY <1>2, UserStep
<1>3. CASE Prepare
  <2> DEFINE q == [asked EXCEPT !.observe = TRUE, !.stop = FALSE]
  <2>1. Schedule(InFlight, q)
    BY <1>3 DEF Prepare
  <2>2. AskedTyped(q)
    BY <1>1, AskedObserve
  <2> HIDE DEF q
  <2>3. AskedTyped(asked') /\ Queues
    BY <2>1, <2>2, ScheduleTyped DEF Queues, InFlight
  <2> QED BY <1>3, <2>3 DEF Prepare, Still, OnUi, world, link, histories
<1>4. CASE Changed
  BY <1>1, <1>4 DEF Changed, Still, Queues, world, histories, txVars, runVars
<1> QED BY <1>2, <1>3, <1>4

-----------------------------------------------------------------------------
(* What the helper's and the world's steps do                               *)

LEMMA CallFields ==
  ASSUME NEW c, CallTyped(c)
  PROVE  /\ c # None /\ c \in Calls
         /\ c.rev \in Nat /\ c.op \in {"observe", "set", "suspend"}
         /\ c.stage \in {"sent", "checked", "changed", "refused"}
BY DeviceAssumption DEF CallTyped, Calls

\* A command that moves to its next stage is otherwise the same.
LEMMA CallStage ==
  ASSUME NEW c, CallTyped(c), c.op = "set", NEW st \in {"sent", "checked", "changed", "refused"}
  PROVE  LET d == [c EXCEPT !.stage = st]
         IN  /\ CallTyped(d) /\ d # None
             /\ d.op = c.op /\ d.field = c.field /\ d.v = c.v /\ d.rev = c.rev /\ d.stage = st
<1> DEFINE d == [c EXCEPT !.stage = st]
<1>1. d \in Calls /\ d.op = c.op /\ d.field = c.field /\ d.v = c.v /\ d.rev = c.rev /\ d.stage = st
  BY DEF CallTyped, Calls
<1> HIDE DEF d
<1>2. CallTyped(d)
  BY <1>1 DEF CallTyped
<1>3. d # None
  BY <1>2, CallFields
<1> QED BY <1>1, <1>2, <1>3 DEF d

HelperQuiet == UNCHANGED <<profile, at, step, leaves, entry, undo, outcome, asked, running, role, shown>>

LEMMA CompareStep ==
  ASSUME TypeOK, Compare
  PROVE  /\ call # None /\ CallTyped(call) /\ call.op = "set" /\ call.stage = "sent"
         /\ call.field \in Fields /\ call.v \in Values(call.field)
         /\ hw[call.field].rev = call.rev /\ Reachable(Observation, call.field, call.v)
         /\ DOMAIN was' = DOMAIN was \cup {call.field}
         /\ \A x \in DOMAIN was : was'[x] = was[x]
         /\ call.field \notin DOMAIN was => was'[call.field] = hw[call.field].v
         /\ CallTyped(call') /\ call' # None /\ call'.op = "set" /\ call'.stage = "checked"
         /\ call'.field = call.field /\ call'.v = call.v /\ call'.rev = call.rev
         /\ watching' = TRUE
         /\ UNCHANGED <<hw, gone, who, helper, changed, answer, seen, blind, raced>>
<1>1. /\ call # None /\ CallTyped(call) /\ call.op = "set" /\ call.stage = "sent"
      /\ call.field \in Fields /\ call.v \in Values(call.field)
  BY DEF Compare, Commanded, TypeOK, HelperTypes, CallTyped
<1>2. hw[call.field].rev = call.rev /\ Reachable(Observation, call.field, call.v)
  BY DEF Compare, Fits
<1>3. /\ DOMAIN was' = DOMAIN was \cup {call.field}
      /\ \A x \in DOMAIN was : was'[x] = was[x]
      /\ call.field \notin DOMAIN was => was'[call.field] = hw[call.field].v
  BY DEF Compare
<1>4. /\ CallTyped(call') /\ call' # None /\ call'.op = "set" /\ call'.stage = "checked"
      /\ call'.field = call.field /\ call'.v = call.v /\ call'.rev = call.rev
  <2>1. call' = [call EXCEPT !.stage = "checked"]
    BY DEF Compare
  <2> QED BY <1>1, <2>1, CallStage
<1>5. watching' = TRUE /\ UNCHANGED <<hw, gone, who, helper, changed, answer, seen, blind, raced>>
  BY DEF Compare, world
<1> QED BY <1>1, <1>2, <1>3, <1>4, <1>5

LEMMA MutateStep ==
  ASSUME TypeOK, Mutate
  PROVE  /\ call # None /\ CallTyped(call) /\ call.op = "set" /\ call.stage = "checked"
         /\ call.field \in Fields /\ call.v \in Values(call.field)
         /\ Reachable(Observation, call.field, call.v)
         /\ Inventory(hw')
         /\ \A y \in Fields \ {call.field} : hw'[y] = hw[y] /\ who'[y] = who[y]
         /\ hw'[call.field].v = call.v /\ who'[call.field] = "redxe"
         /\ hw[call.field].v = call.v => hw'[call.field].rev = hw[call.field].rev
         /\ hw[call.field].v # call.v => hw'[call.field].rev = hw[call.field].rev + 1
         /\ who' \in [Fields -> {"none", "redxe", "other"}]
         /\ CallTyped(call') /\ call' # None /\ call'.op = "set" /\ call'.stage = "changed"
         /\ call'.field = call.field /\ call'.v = call.v /\ call'.rev = call.rev
         /\ UNCHANGED <<gone, helper, watching, answer, seen, was, blind, raced>>
<1>1. /\ call # None /\ CallTyped(call) /\ call.op = "set" /\ call.stage = "checked"
      /\ call.field \in Fields /\ call.v \in Values(call.field)
  BY DEF Mutate, Commanded, TypeOK, HelperTypes, CallTyped
<1>2. Reachable(Observation, call.field, call.v)
  BY DEF Mutate
<1>3. hw' = Set(call.field, call.v) /\ Inventory(hw)
  BY DEF Mutate, TypeOK, HelperTypes
<1>4. /\ Inventory(Set(call.field, call.v))
      /\ \A y \in Fields \ {call.field} : Set(call.field, call.v)[y] = hw[y]
      /\ Set(call.field, call.v)[call.field].v = call.v
      /\ hw[call.field].v = call.v => Set(call.field, call.v)[call.field].rev = hw[call.field].rev
      /\ hw[call.field].v # call.v => Set(call.field, call.v)[call.field].rev = hw[call.field].rev + 1
  BY <1>1, <1>3, SetFacts
<1>5. /\ Inventory(hw')
      /\ \A y \in Fields \ {call.field} : hw'[y] = hw[y]
      /\ hw'[call.field].v = call.v
      /\ hw[call.field].v = call.v => hw'[call.field].rev = hw[call.field].rev
      /\ hw[call.field].v # call.v => hw'[call.field].rev = hw[call.field].rev + 1
  BY <1>3, <1>4 DEF Inventory
<1>6. /\ who' \in [Fields -> {"none", "redxe", "other"}] /\ who'[call.field] = "redxe"
      /\ \A y \in Fields \ {call.field} : who'[y] = who[y]
  BY <1>1 DEF Mutate, TypeOK, HelperTypes
<1>7. /\ CallTyped(call') /\ call' # None /\ call'.op = "set" /\ call'.stage = "changed"
      /\ call'.field = call.field /\ call'.v = call.v /\ call'.rev = call.rev
  <2>1. call' = [call EXCEPT !.stage = "changed"]
    BY DEF Mutate
  <2> QED BY <1>1, <2>1, CallStage
<1>8. UNCHANGED <<gone, helper, watching, answer, seen, was, blind, raced>>
  BY DEF Mutate, histories
<1> QED BY <1>1, <1>2, <1>5, <1>6, <1>7, <1>8

LEMMA RefuseStep ==
  ASSUME TypeOK, Refuse
  PROVE  /\ call # None /\ CallTyped(call) /\ call.op = "set" /\ call.stage \in {"sent", "checked"}
         /\ CallTyped(call') /\ call' # None /\ call'.op = "set" /\ call'.stage = "refused"
         /\ call'.field = call.field /\ call'.v = call.v /\ call'.rev = call.rev
         /\ UNCHANGED <<hw, gone, who, helper, watching, answer, seen, was, blind, raced>>
<1>1. call # None /\ CallTyped(call) /\ call.op = "set" /\ call.stage \in {"sent", "checked"}
  BY DEF Refuse, Commanded, TypeOK, HelperTypes
<1>2. /\ CallTyped(call') /\ call' # None /\ call'.op = "set" /\ call'.stage = "refused"
      /\ call'.field = call.field /\ call'.v = call.v /\ call'.rev = call.rev
  <2>1. call' = [call EXCEPT !.stage = "refused"]
    BY DEF Refuse
  <2> QED BY <1>1, <2>1, CallStage
<1> QED BY <1>1, <1>2 DEF Refuse, world, histories

LEMMA ReadBackStep ==
  ASSUME TypeOK, ReadBack
  PROVE  /\ call # None /\ CallTyped(call) /\ (call.op = "observe" \/ call.stage \in {"changed", "refused"})
         /\ seen'.hw = hw /\ seen'.gone = gone /\ seen' = [hw |-> hw, gone |-> gone, known |-> TRUE]
         /\ call' = None /\ answer' \in {"ok", "failed"}
         /\ answer' = "ok" =>
              /\ call.stage # "refused"
              /\ call.stage = "changed" /\ call.field[1] \in {"mute", "route"} =>
                   hw[call.field].v = call.v /\ Reachable(Observation, call.field, call.v)
         /\ answer' = "failed" => call.stage # "sent"
         /\ UNCHANGED <<hw, gone, who, helper, was, blind, raced>>
BY DEF ReadBack, Served, TypeOK, HelperTypes, Observation, world, histories

LEMMA ReadBackFailsStep ==
  ASSUME TypeOK, ReadBackFails
  PROVE  /\ call # None /\ CallTyped(call) /\ (call.op = "observe" \/ call.stage \in {"changed", "refused"})
         /\ seen'.hw = seen.hw /\ seen'.gone = seen.gone
         /\ seen' = [hw |-> seen'.hw, gone |-> seen'.gone, known |-> seen'.known]
         /\ call' = None /\ answer' = "failed"
         /\ blind' = IF call.stage = "changed" THEN blind \cup {call.field} ELSE blind
         /\ UNCHANGED <<hw, gone, who, helper, was, raced>>
<1>1. /\ call # None /\ CallTyped(call) /\ (call.op = "observe" \/ call.stage \in {"changed", "refused"})
      /\ call' = None /\ answer' = "failed"
      /\ blind' = IF call.stage = "changed" THEN blind \cup {call.field} ELSE blind
      /\ UNCHANGED <<hw, gone, who, helper, was, raced>>
  BY DEF ReadBackFails, Served, TypeOK, HelperTypes, world
<1>2. seen' = [seen EXCEPT !.known = FALSE] /\ seen = [hw |-> seen.hw, gone |-> seen.gone, known |-> seen.known]
  BY DEF ReadBackFails, TypeOK, HelperTypes
<1>3. seen'.hw = seen.hw /\ seen'.gone = seen.gone
      /\ seen' = [hw |-> seen'.hw, gone |-> seen'.gone, known |-> seen'.known]
  BY <1>2
<1> QED BY <1>1, <1>3

\* The helper's end turns the camera off, and nothing else.
Faded ==
  /\ Inventory(hw')
  /\ \A y \in Fields \ {Camera} : hw'[y] = hw[y]
  /\ hw'[Camera].v.source = hw[Camera].v.source
  /\ hw'[Camera] = hw[Camera] \/ hw'[Camera].rev > hw[Camera].rev

LEMMA FadedSame == ASSUME TypeOK, hw' = hw PROVE Faded
BY DEF Faded, TypeOK, HelperTypes

LEMMA EndedStep ==
  ASSUME TypeOK, Ended
  PROVE  Faded /\ helper' = "none" /\ watching' = FALSE
<1> DEFINE off == [hw[Camera].v EXCEPT !.on = FALSE]
<1>1. Camera \in Fields /\ Inventory(hw) /\ Values(Camera) = [source : Cameras, on : BOOLEAN]
  BY FieldMembers, FieldValues DEF TypeOK, HelperTypes
<1>2. hw[Camera].v \in [source : Cameras, on : BOOLEAN] /\ hw[Camera].rev \in Nat
  BY <1>1, InventoryCell
<1>3. off \in Values(Camera) /\ off.source = hw[Camera].v.source
  BY <1>1, <1>2
<1>4. hw' = Set(Camera, off)
  BY DEF Ended
<1> HIDE DEF off
<1>5. /\ Inventory(Set(Camera, off))
      /\ \A y \in Fields \ {Camera} : Set(Camera, off)[y] = hw[y]
      /\ Set(Camera, off)[Camera].v = off
      /\ hw[Camera].v = off => Set(Camera, off)[Camera].rev = hw[Camera].rev
      /\ hw[Camera].v # off => Set(Camera, off)[Camera].rev = hw[Camera].rev + 1
  BY <1>1, <1>3, SetFacts
<1>6. Inventory(hw') /\ \A y \in Fields \ {Camera} : hw'[y] = hw[y]
  BY <1>4, <1>5 DEF Inventory
<1>7. hw'[Camera].v.source = hw[Camera].v.source
  BY <1>3, <1>4, <1>5
<1>8. CASE hw[Camera].v = off
  <2>1. hw'[Camera].v = hw[Camera].v /\ hw'[Camera].rev = hw[Camera].rev
    BY <1>4, <1>5, <1>8
  <2>2. hw[Camera] = [v |-> hw[Camera].v, rev |-> hw[Camera].rev]
    BY <1>1 DEF Inventory
  <2>3. hw'[Camera] = [v |-> hw'[Camera].v, rev |-> hw'[Camera].rev]
    BY <1>1, <1>6 DEF Inventory
  <2>4. hw'[Camera] = hw[Camera]
    BY <2>1, <2>2, <2>3
  <2> QED BY <1>6, <1>7, <2>4 DEF Faded, Ended
<1>9. CASE hw[Camera].v # off
  <2>1. hw'[Camera].rev > hw[Camera].rev
    BY <1>2, <1>4, <1>5, <1>9
  <2> QED BY <1>6, <1>7, <2>1 DEF Faded, Ended
<1> QED BY <1>8, <1>9

LEMMA LoseStep ==
  ASSUME TypeOK, Lose
  PROVE  /\ call # None /\ CallTyped(call) /\ Faded
         /\ call' = None /\ answer' = "lost"
         /\ UNCHANGED <<gone, who, seen, was, blind, raced>>
BY EndedStep, FadedSame DEF Lose, TypeOK, HelperTypes, histories

LEMMA CrashStep ==
  ASSUME TypeOK, Crash
  PROVE  /\ call = None /\ Faded
         /\ UNCHANGED <<gone, who, call, answer, seen, was, blind, raced>>
BY EndedStep DEF Crash, histories

LEMMA SuspendStep ==
  ASSUME TypeOK, Suspend
  PROVE  /\ call # None /\ CallTyped(call) /\ call.op = "suspend"
         /\ call' = None /\ answer' = "ok"
         /\ UNCHANGED <<hw, gone, who, helper, seen, was, blind, raced>>
BY DEF Suspend, TypeOK, HelperTypes, world, histories

\* A command has changed the field; or it is past its comparison at least.
Unread(x) == call # None /\ call.stage = "changed" /\ call.field = x
InWork(x) == call # None /\ call.stage \in {"checked", "changed"} /\ call.field = x

\* What others change is theirs, and later than what RedXe saw; the camera and
\* what is out stay as they are.
Disturbed ==
  /\ Inventory(hw') /\ who' \in [Fields -> {"none", "redxe", "other"}]
  /\ \A x \in Fields :
       \/ hw'[x] = hw[x] /\ who'[x] = who[x]
       \/ /\ x # Camera /\ who'[x] = "other" /\ hw'[x].rev > hw[x].rev
          /\ InWork(x) => x \in raced'
  /\ raced \subseteq raced' /\ gone \subseteq gone'
  /\ UNCHANGED <<helper, watching, call, answer, seen, was, blind>>

LEMMA ElsewhereStep ==
  ASSUME TypeOK, NEW fields \in SUBSET Fields, Elsewhere(fields)
  PROVE  /\ who' \in [Fields -> {"none", "redxe", "other"}]
         /\ \A x \in Fields : who'[x] = IF x \in fields THEN "other" ELSE who[x]
         /\ raced \subseteq raced'
         /\ \A x \in fields : InWork(x) => x \in raced'
         /\ UNCHANGED <<helper, watching, call, answer, seen, was, blind>>
<1>1. who' = [x \in Fields |-> IF x \in fields THEN "other" ELSE who[x]]
  BY DEF Elsewhere
<1>2. who \in [Fields -> {"none", "redxe", "other"}]
  BY DEF TypeOK, HelperTypes
<1>3. raced' = raced \cup {x \in fields : call # None /\ call.stage \in {"checked", "changed"} /\ call.field = x}
  BY DEF Elsewhere
<1> QED BY <1>1, <1>2, <1>3 DEF Elsewhere, InWork

LEMMA WorldStep ==
  ASSUME TypeOK, World
  PROVE  Disturbed
<1>1. Inventory(hw) /\ who \in [Fields -> {"none", "redxe", "other"}]
  BY DEF TypeOK, HelperTypes
<1>2. ASSUME NEW field \in Fields, NEW v \in Values(field), Other(field, v) PROVE Disturbed
  <2>1. hw' = Set(field, v) /\ gone' = gone /\ Elsewhere({field}) /\ field # Camera /\ hw[field].v # v
    BY <1>2 DEF Other
  <2>2. /\ Inventory(Set(field, v))
        /\ \A y \in Fields \ {field} : Set(field, v)[y] = hw[y]
        /\ Set(field, v)[field].rev = hw[field].rev + 1
    BY <1>1, <2>1, SetFacts
  <2>3. Inventory(hw') /\ (\A y \in Fields \ {field} : hw'[y] = hw[y]) /\ hw'[field].rev > hw[field].rev
    <3>1. hw[field].rev \in Nat
      BY <1>1, InventoryCell
    <3>2. Inventory(hw') /\ \A y \in Fields \ {field} : hw'[y] = hw[y]
      BY <2>1, <2>2 DEF Inventory
    <3>3. hw'[field].rev = hw[field].rev + 1
      BY <2>1, <2>2
    <3> QED BY <3>1, <3>2, <3>3
  <2>4. /\ who' \in [Fields -> {"none", "redxe", "other"}]
        /\ \A x \in Fields : who'[x] = IF x \in {field} THEN "other" ELSE who[x]
        /\ raced \subseteq raced'
        /\ \A x \in {field} : InWork(x) => x \in raced'
        /\ UNCHANGED <<helper, watching, call, answer, seen, was, blind>>
    <3>1. {field} \in SUBSET Fields /\ Elsewhere({field})
      BY <2>1
    <3> QED BY <3>1, ElsewhereStep
  <2> QED BY <2>1, <2>3, <2>4 DEF Disturbed
<1>3. ASSUME NEW f \in FlowSet, NEW e \in Endpoints, Unplug(f, e) PROVE Disturbed
  <2> DEFINE left == {x \in Endpoints : <<f, x>> \notin gone'}
             moved == {Route(f, r) : r \in {q \in RoleSet : hw[Route(f, q)].v = e}}
  <2>1. PICK next \in IF left = {} THEN {None} ELSE left :
           /\ hw' = [x \in Fields |-> IF x \in moved THEN [v |-> next, rev |-> hw[x].rev + 1] ELSE hw[x]]
           /\ Elsewhere(moved)
    BY <1>3 DEF Unplug
  <2>2. gone \subseteq gone'
    BY <1>3 DEF Unplug
  <2>3. next \in Endpoints \cup {None}
    BY <2>1
  <2>4. \A x \in moved : x \in Fields /\ x # Camera /\ Values(x) = Endpoints \cup {None}
    <3>1. ASSUME NEW r \in RoleSet
          PROVE  Route(f, r) \in Fields /\ Route(f, r) # Camera /\ Values(Route(f, r)) = Endpoints \cup {None}
      BY FieldMembers, FieldValues, RouteName, CameraName
    <3> QED BY <3>1
  <2> HIDE DEF moved, left
  <2>5. \A x \in Fields : /\ x \in moved => hw'[x] = [v |-> next, rev |-> hw[x].rev + 1]
                          /\ x \notin moved => hw'[x] = hw[x]
    BY <2>1
  <2>6. Inventory(hw')
    <3>1. ASSUME NEW x \in Fields
          PROVE  /\ hw'[x].v \in Values(x) /\ hw'[x].rev \in Nat \ {0}
                 /\ hw'[x] = [v |-> hw'[x].v, rev |-> hw'[x].rev]
      <4>1. hw[x].v \in Values(x) /\ hw[x].rev \in Nat /\ hw[x].rev # 0
            /\ hw[x] = [v |-> hw[x].v, rev |-> hw[x].rev]
        BY <1>1 DEF Inventory
      <4>2. CASE x \in moved
        <5>1. hw'[x] = [v |-> next, rev |-> hw[x].rev + 1] /\ next \in Values(x)
          BY <2>3, <2>4, <2>5, <4>2
        <5>2. hw'[x].v = next /\ hw'[x].rev = hw[x].rev + 1
          BY <5>1
        <5> QED BY <4>1, <5>1, <5>2
      <4>3. CASE x \notin moved
        BY <2>5, <4>1, <4>3
      <4> QED BY <4>2, <4>3
    <3>3. hw' = [x \in Fields |-> hw'[x]]
      BY <2>1
    <3> QED BY <3>1, <3>3 DEF Inventory
  <2>7. ASSUME NEW x \in moved PROVE hw'[x].rev > hw[x].rev
    <3>1. x \in Fields /\ hw[x].rev \in Nat
      BY <1>1, <2>4, InventoryCell
    <3>2. hw'[x] = [v |-> next, rev |-> hw[x].rev + 1]
      BY <2>5, <3>1
    <3>3. hw'[x].rev = hw[x].rev + 1
      BY <3>2
    <3> QED BY <3>1, <3>3
  <2>8. /\ who' \in [Fields -> {"none", "redxe", "other"}]
        /\ \A x \in Fields : who'[x] = IF x \in moved THEN "other" ELSE who[x]
        /\ raced \subseteq raced'
        /\ \A x \in moved : InWork(x) => x \in raced'
        /\ UNCHANGED <<helper, watching, call, answer, seen, was, blind>>
    <3>1. moved \in SUBSET Fields /\ Elsewhere(moved)
      BY <2>1, <2>4
    <3> QED BY <3>1, ElsewhereStep
  <2> QED BY <2>2, <2>4, <2>5, <2>6, <2>7, <2>8 DEF Disturbed
<1> QED BY <1>2, <1>3 DEF World

-----------------------------------------------------------------------------
(* A run begins                                                             *)

\* What every beginning has in common.
Begun ==
  /\ at \in {"queued", "taken"}
  /\ at' \in {"taken", "first", "follow", "command", "observe", "suspend", "finished", "suspended"}
  /\ Inventory(hw') /\ \A x \in Fields : hw'[x].v = hw[x].v
  /\ who' = [x \in Fields |-> "none"] /\ DOMAIN was' = {} /\ blind' = {}
  /\ call' # None => CallTyped(call') /\ call'.stage = "sent"
  /\ answer' = "none"
  /\ UNCHANGED <<gone, seen, role, shown>>
  /\ profile' \in Profiles /\ step' \in Nat \ {0} /\ entry' = None /\ undo' = <<>>
  /\ outcome' \in Outcomes /\ (at' = "first" => ~outcome'.applied)

LEMMA FreshStep == ASSUME Fresh PROVE who' = [x \in Fields |-> "none"] /\ DOMAIN was' = {} /\ blind' = {}
BY DEF Fresh

LEMMA AskPlain ==
  ASSUME NEW st \in {"observe", "suspend"}, Ask(st, None, None, 0)
  PROVE  CallTyped(call') /\ call' # None /\ call'.stage = "sent" /\ call'.op = st
<1>1. call' = [op |-> st, field |-> None, v |-> None, rev |-> 0, stage |-> "sent"]
  BY DEF Ask
<1>2. None \in AnyValue
  BY DEF AnyValue
<1>3. call' \in Calls
  BY <1>1, <1>2 DEF Calls
<1>4. CallTyped(call')
  BY <1>1, <1>3 DEF CallTyped
<1> QED BY <1>1, <1>4, CallFields

LEMMA AskSet ==
  ASSUME NEW f \in Fields, NEW v \in Values(f), NEW rev \in Nat, Ask("set", f, v, rev)
  PROVE  /\ CallTyped(call') /\ call' # None /\ call'.stage = "sent" /\ call'.op = "set"
         /\ call'.field = f /\ call'.v = v /\ call'.rev = rev
<1>1. call' = [op |-> "set", field |-> f, v |-> v, rev |-> rev, stage |-> "sent"]
  BY DEF Ask
<1>2. v \in AnyValue
  BY ValuesAreValues
<1>3. call' \in Calls
  BY <1>1, <1>2 DEF Calls
<1>4. CallTyped(call')
  BY <1>1, <1>3 DEF CallTyped
<1> QED BY <1>1, <1>4, CallFields

Valued == Inventory(hw') /\ \A x \in Fields : hw'[x].v = hw[x].v

LEMMA UnchangedValued == ASSUME TypeOK, hw' = hw PROVE Valued
BY DEF Valued, TypeOK, HelperTypes

LEMMA StartHelperStep == ASSUME TypeOK, StartHelper PROVE Valued
<1>1. hw' = [x \in Fields |-> [v |-> hw[x].v, rev |-> 1]] /\ Inventory(hw)
  BY DEF StartHelper, TypeOK, HelperTypes
<1>2. ASSUME NEW x \in Fields
      PROVE  /\ hw'[x].v = hw[x].v /\ hw'[x].v \in Values(x) /\ hw'[x].rev \in Nat \ {0}
             /\ hw'[x] = [v |-> hw'[x].v, rev |-> hw'[x].rev]
  <2>1. hw'[x] = [v |-> hw[x].v, rev |-> 1] /\ hw[x].v \in Values(x)
    BY <1>1, InventoryCell
  <2>2. hw'[x].v = hw[x].v /\ hw'[x].rev = 1
    BY <2>1
  <2> QED BY <2>1, <2>2
<1>3. hw' = [x \in Fields |-> hw'[x]]
  BY <1>1
<1> QED BY <1>2, <1>3 DEF Valued, Inventory

LEMMA ResumeStep == ASSUME TypeOK, Resume PROVE Valued
<1>1. hw' = [x \in Fields |-> IF x = Camera THEN hw[x] ELSE [v |-> hw[x].v, rev |-> 1]] /\ Inventory(hw)
  BY DEF Resume, TypeOK, HelperTypes
<1>2. ASSUME NEW x \in Fields
      PROVE  /\ hw'[x].v = hw[x].v /\ hw'[x].v \in Values(x) /\ hw'[x].rev \in Nat \ {0}
             /\ hw'[x] = [v |-> hw'[x].v, rev |-> hw'[x].rev]
  <2>1. hw[x].v \in Values(x) /\ hw[x].rev \in Nat \ {0} /\ hw[x] = [v |-> hw[x].v, rev |-> hw[x].rev]
    BY <1>1 DEF Inventory
  <2>2. CASE x = Camera
    BY <1>1, <2>1, <2>2
  <2>3. CASE x # Camera
    <3>1. hw'[x] = [v |-> hw[x].v, rev |-> 1]
      BY <1>1, <2>3
    <3>2. hw'[x].v = hw[x].v /\ hw'[x].rev = 1
      BY <3>1
    <3> QED BY <2>1, <3>1, <3>2
  <2> QED BY <2>2, <2>3
<1>3. hw' = [x \in Fields |-> hw'[x]]
  BY <1>1
<1> QED BY <1>2, <1>3 DEF Valued, Inventory

LEMMA RunningStep == ASSUME TypeOK, Running PROVE Valued
BY UnchangedValued, StartHelperStep, ResumeStep DEF Running

LEMMA NoOutcomeTyped ==
  \A r \in Results : [NoOutcome EXCEPT !.result = r] \in Outcomes
BY DEF NoOutcome, Results, Outcomes

LEMMA NoOutcomeFacts == NoOutcome \in Outcomes /\ ~NoOutcome.applied /\ NoOutcome.whole
BY DEF NoOutcome, Outcomes, Results

LEMMA QueuedFacts ==
  ASSUME TypeOK, ControlInv, at \in {"queued", "taken"}
  PROVE  /\ call = None /\ answer = "none" /\ entry = None /\ undo = <<>>
         /\ profile \in Profiles /\ step \in Nat \ {0} /\ AskedTyped(asked)
BY DEF ControlInv, TypeOK, TxTypes, CoordinatorTypes

\* The facts of a beginning give the invariants.
LEMMA BegunControl ==
  ASSUME Begun,
         at' \in {"taken", "finished", "suspended"} => call' = None,
         call' # None /\ at' \in {"first", "follow", "observe"} => call'.op = "observe",
         call' # None /\ at' = "suspend" => call'.op = "suspend",
         call' # None /\ at' = "command" =>
           call'.op = "set" /\ call'.field = running'.field /\ call'.v = running'.v,
         at' \in {"follow", "command"} => running' # None,
         at' = "follow" => running'.follow,
         at' = "first" => step' = 1
  PROVE  ControlInv'
BY DEF Begun, ControlInv

LEMMA NotRunStep ==
  ASSUME TypeOK, ControlInv, at \in {"queued", "taken"}, NotRun
  PROVE  /\ at' \in {"finished", "suspended"} /\ Valued /\ call' = None
         /\ profile' = profile /\ step' = step /\ entry' = None /\ undo' = <<>> /\ outcome' \in Outcomes
BY QueuedFacts, UnchangedValued, NoOutcomeTyped DEF NotRun, locals, Results

LEMMA RunCommandStep ==
  ASSUME TypeOK, ControlInv, NEW l \in Lanes, RunCommand(l)
  PROVE  /\ Begun /\ AskedTyped(asked') /\ (running' # None => CommandTyped(running')) /\ ControlInv'
         /\ running' = asked.lane[l] /\ asked.lane[l] # None /\ ranProfile' = FALSE
         /\ at' \in {"finished", "suspended", "follow", "command"}
<1> DEFINE c == asked.lane[l]
<1>1. /\ at = "queued" /\ running' = c /\ ranProfile' = FALSE /\ asked' = [asked EXCEPT !.lane[l] = None]
      /\ Fresh /\ UNCHANGED <<gone, seen, answer, role, shown>>
  BY DEF RunCommand, Take, uiVars
<1>2. c # None
  BY DEF RunCommand, Foremost
<1>3. LaneTyped(l, c) /\ AskedTyped(asked)
  BY <1>1, <1>2, QueuedFacts DEF AskedTyped
<1>4. AskedTyped(asked')
  BY <1>1, <1>3, LaneSet
<1>5. CommandTyped(c)
  BY <1>3 DEF LaneTyped
<1> HIDE DEF c
<1>6. CASE NotRun
  <2>1. Begun
    BY <1>1, <1>6, NotRunStep, QueuedFacts, FreshStep DEF Begun, Valued
  <2>2. at' \in {"finished", "suspended"} /\ call' = None
    BY <1>1, <1>6, NotRunStep
  <2>3. ControlInv'
    BY <2>1, <2>2, BegunControl
  <2> QED BY <1>1, <1>2, <1>4, <1>5, <2>1, <2>2, <2>3 DEF c
<1>7. CASE ~NotRun
  <2>1. /\ Running
        /\ IF c.follow
             THEN at' = "follow" /\ Ask("observe", None, None, 0)
             ELSE at' = "command" /\ Ask("set", c.field, c.v, c.rev)
        /\ outcome' = NoOutcome
        /\ UNCHANGED <<profile, locals>>
    BY <1>7 DEF RunCommand, c
  <2>2. c.field \in Fields /\ c.v \in Values(c.field) /\ c.rev \in Nat
    BY <1>5 DEF CommandTyped, Commands
  <2>3. CASE c.follow
    <3>1. at' = "follow" /\ CallTyped(call') /\ call'.stage = "sent" /\ call'.op = "observe"
      BY <2>1, <2>3, AskPlain
    <3>2. Begun
      BY <1>1, <2>1, <3>1, RunningStep, QueuedFacts, FreshStep, NoOutcomeFacts DEF Begun, Valued, locals
    <3>3. ControlInv'
      BY <1>1, <1>2, <2>3, <3>1, <3>2, BegunControl
    <3> QED BY <1>1, <1>2, <1>4, <1>5, <3>1, <3>2, <3>3 DEF c
  <2>4. CASE ~c.follow
    <3>1. /\ at' = "command" /\ CallTyped(call') /\ call'.stage = "sent" /\ call'.op = "set"
          /\ call'.field = c.field /\ call'.v = c.v
      BY <2>1, <2>2, <2>4, AskSet
    <3>2. Begun
      BY <1>1, <2>1, <3>1, RunningStep, QueuedFacts, FreshStep, NoOutcomeFacts DEF Begun, Valued, locals
    <3>3. ControlInv'
      BY <1>1, <1>2, <3>1, <3>2, BegunControl
    <3> QED BY <1>1, <1>2, <1>4, <1>5, <3>1, <3>2, <3>3 DEF c
  <2> QED BY <2>3, <2>4
<1> QED BY <1>6, <1>7

LEMMA AskedUpdate ==
  ASSUME NEW q, AskedTyped(q), NEW p, p # None => p \in Profiles, NEW b \in BOOLEAN
  PROVE  AskedTyped([q EXCEPT !.profile = p]) /\ AskedTyped([q EXCEPT !.busy = b])
<1>1. q = [lane |-> q.lane, profile |-> q.profile, busy |-> q.busy, observe |-> q.observe, stop |-> q.stop]
  BY DEF AskedTyped
<1>2. (q.profile # None => q.profile \in Profiles) /\ q.busy \in BOOLEAN
  BY DEF AskedTyped
<1>3. AskedTyped([q EXCEPT !.profile = p])
  <2> DEFINE r == [q EXCEPT !.profile = p]
  <2>1. r = [lane |-> q.lane, profile |-> p, busy |-> q.busy, observe |-> q.observe, stop |-> q.stop]
    BY <1>1
  <2> HIDE DEF r
  <2>2. /\ r = [lane |-> r.lane, profile |-> r.profile, busy |-> r.busy, observe |-> r.observe, stop |-> r.stop]
        /\ r.lane = q.lane /\ r.profile = p /\ r.busy = q.busy
    BY <2>1
  <2>3. AskedTyped(r)
    BY <1>2, <2>2, AskedSet
  <2> QED BY <2>3 DEF r
<1>4. AskedTyped([q EXCEPT !.busy = b])
  <2> DEFINE r == [q EXCEPT !.busy = b]
  <2>1. r = [lane |-> q.lane, profile |-> q.profile, busy |-> b, observe |-> q.observe, stop |-> q.stop]
    BY <1>1
  <2> HIDE DEF r
  <2>2. /\ r = [lane |-> r.lane, profile |-> r.profile, busy |-> r.busy, observe |-> r.observe, stop |-> r.stop]
        /\ r.lane = q.lane /\ r.profile = q.profile /\ r.busy = b
    BY <2>1
  <2>3. AskedTyped(r)
    BY <1>2, <2>2, AskedSet
  <2> QED BY <2>3 DEF r
<1> QED BY <1>3, <1>4

LEMMA BeginStep ==
  ASSUME Begin
  PROVE  /\ at' = "first" /\ CallTyped(call') /\ call' # None /\ call'.stage = "sent" /\ call'.op = "observe"
         /\ profile' = profile /\ step' = 1 /\ entry' = None /\ undo' = <<>> /\ outcome' = NoOutcome
BY AskPlain DEF Begin

LEMMA RunProfileStep ==
  ASSUME TypeOK, ControlInv, RunProfile
  PROVE  /\ Begun /\ AskedTyped(asked') /\ running' = None /\ ControlInv'
         /\ at = "queued" /\ at' = "taken" /\ call' = None /\ profile' = asked.profile
         /\ asked' = [asked EXCEPT !.profile = None] /\ asked.profile \in Profiles /\ ranProfile' = TRUE
<1>1. /\ at = "queued" /\ running' = None /\ asked' = [asked EXCEPT !.profile = None] /\ ranProfile' = TRUE
      /\ Fresh /\ UNCHANGED <<gone, seen, answer, role, shown>>
      /\ at' = "taken" /\ profile' = asked.profile /\ outcome' = NoOutcome
      /\ UNCHANGED <<hw, call, step, entry, undo>>
  BY DEF RunProfile, Take, uiVars, locals
<1>2. asked.profile \in Profiles /\ AskedTyped(asked)
  BY <1>1, QueuedFacts DEF RunProfile, AskedTyped
<1>3. AskedTyped(asked')
  <2>1. AskedTyped([asked EXCEPT !.profile = None])
    BY <1>2, AskedUpdate
  <2> QED BY <1>1, <2>1
<1>4. Begun
  BY <1>1, <1>2, UnchangedValued, QueuedFacts, FreshStep, NoOutcomeFacts DEF Begun, Valued
<1>5. call' = None
  BY <1>1, QueuedFacts
<1> QED BY <1>1, <1>2, <1>3, <1>4, <1>5, BegunControl

LEMMA ApplyProfileStep ==
  ASSUME TypeOK, ControlInv, ApplyProfile
  PROVE  /\ Begun /\ ControlInv'
         /\ at = "taken" /\ at' \in {"finished", "first"}
         /\ UNCHANGED <<asked, running, ranProfile, profile>>
<1>1. /\ at = "taken" /\ Fresh /\ UNCHANGED <<gone, seen, answer, role, shown, asked, running, ranProfile>>
      /\ NotRun \/ (Running /\ Begin)
  BY DEF ApplyProfile, uiVars, runVars
<1>2. CASE NotRun
  <2>1. Begun /\ profile' = profile
    BY <1>1, <1>2, NotRunStep, QueuedFacts, FreshStep DEF Begun, Valued
  <2>2. at' = "finished" /\ call' = None
    BY <1>1, <1>2, NotRunStep DEF NotRun
  <2> QED BY <1>1, <2>1, <2>2, BegunControl
<1>3. CASE Running /\ Begin
  <2>1. /\ at' = "first" /\ CallTyped(call') /\ call' # None /\ call'.stage = "sent" /\ call'.op = "observe"
        /\ profile' = profile /\ step' = 1 /\ entry' = None /\ undo' = <<>> /\ outcome' = NoOutcome
    BY <1>3, BeginStep
  <2>2. Begun
    BY <1>1, <1>3, <2>1, RunningStep, QueuedFacts, FreshStep, NoOutcomeFacts DEF Begun, Valued
  <2> QED BY <1>1, <2>1, <2>2, BegunControl
<1> QED BY <1>1, <1>2, <1>3

LEMMA RunObserveStep ==
  ASSUME TypeOK, ControlInv, RunObserve
  PROVE  /\ Begun /\ AskedTyped(asked') /\ running' = None /\ ControlInv'
         /\ ranProfile' = FALSE /\ at' \in {"finished", "suspended", "observe", "suspend"}
<1>1. /\ at = "queued" /\ running' = None /\ asked' = [asked EXCEPT !.observe = FALSE, !.stop = FALSE]
      /\ Fresh /\ UNCHANGED <<gone, seen, answer, role, shown>> /\ ranProfile' = FALSE
  BY DEF RunObserve, Take, uiVars
<1>2. AskedTyped(asked')
  <2>1. AskedTyped([asked EXCEPT !.observe = FALSE, !.stop = FALSE])
    BY <1>1, QueuedFacts, AskedObserve
  <2> QED BY <1>1, <2>1
<1>3. CASE NotRun
  <2>1. Begun
    BY <1>1, <1>3, NotRunStep, QueuedFacts, FreshStep DEF Begun, Valued
  <2>2. at' \in {"finished", "suspended"} /\ call' = None
    BY <1>1, <1>3, NotRunStep
  <2> QED BY <1>1, <1>2, <2>1, <2>2, BegunControl
<1>4. CASE ~NotRun
  <2>1. /\ IF asked.stop
             THEN /\ IF helper = "up"
                       THEN at' = "suspend" /\ Ask("suspend", None, None, 0)
                       ELSE at' \in {"finished", "suspended"} /\ call' = None
                  /\ UNCHANGED <<hw, helper, changed, trouble>>
             ELSE at' = "observe" /\ Ask("observe", None, None, 0) /\ Running
        /\ outcome' = NoOutcome
        /\ UNCHANGED <<profile, locals>>
    BY <1>4 DEF RunObserve
  <2>2. Valued
    BY <2>1, UnchangedValued, RunningStep
  <2>3. \/ at' = "suspend" /\ CallTyped(call') /\ call' # None /\ call'.stage = "sent" /\ call'.op = "suspend"
        \/ at' \in {"finished", "suspended"} /\ call' = None
        \/ at' = "observe" /\ CallTyped(call') /\ call' # None /\ call'.stage = "sent" /\ call'.op = "observe"
    BY <2>1, AskPlain
  <2>4. Begun
    BY <1>1, <2>1, <2>2, <2>3, QueuedFacts, FreshStep, NoOutcomeFacts DEF Begun, Valued, locals
  <2> QED BY <1>1, <1>2, <2>3, <2>4, BegunControl
<1> QED BY <1>3, <1>4

-----------------------------------------------------------------------------
(* A run ends                                                               *)

LEMMA OutcomeFields ==
  ASSUME NEW o \in Outcomes
  PROVE  o.result \in Results /\ o.applied \in BOOLEAN /\ o.whole \in BOOLEAN /\ o.known \in BOOLEAN
BY DEF Outcomes

LEMMA OutcomeResult ==
  ASSUME NEW o \in Outcomes, NEW r \in Results
  PROVE  LET p == [o EXCEPT !.result = r]
         IN  p \in Outcomes /\ p.result = r /\ p.applied = o.applied /\ p.whole = o.whole /\ p.known = o.known
BY DEF Outcomes

LEMMA EndRunStep ==
  ASSUME outcome \in Outcomes, NEW r \in Results, NEW k, EndRun(r, k)
  PROVE  /\ at' \in {"finished", "suspended"} /\ outcome' \in Outcomes
         /\ outcome'.result = r /\ outcome'.applied = outcome.applied /\ outcome'.whole = outcome.whole
BY OutcomeResult DEF EndRun

LEMMA AnswersAreResults ==
  ASSUME TypeOK, answer # "none" PROVE answer \in Results
BY DEF TypeOK, HelperTypes, Results

\* The worker's last steps leave the devices and what is remembered alone.
WorkerQuiet == UNCHANGED <<hw, gone, who, seen, was, blind, raced, asked, shown, profile>>

LEMMA WorkerFrame == ASSUME Worker, hw' = hw PROVE WorkerQuiet
BY DEF Worker, WorkerQuiet, histories, uiVars

LEMMA CommandMoved ==
  ASSUME NEW c, CommandTyped(c), NEW f \in Fields, NEW v \in Values(f),
         f[1] \in {"mute", "camera"},
         NEW d, d = [field |-> f, v |-> v, rev |-> c.rev, follow |-> c.follow]
  PROVE  CommandTyped(d) /\ d # None /\ d.field = f /\ d.v = v /\ d.follow = c.follow
<1>1. c.rev \in Nat /\ c.follow \in BOOLEAN
  BY DEF CommandTyped, Commands
<1>2. v \in AnyValue
  BY ValuesAreValues
<1>3. d \in Commands
  BY <1>1, <1>2 DEF Commands
<1>4. d # None
  BY <1>3, CommandAssumption
<1>5. CommandTyped(d)
  BY <1>3 DEF CommandTyped
<1> QED BY <1>4, <1>5

LEMMA FollowedStep ==
  ASSUME TypeOK, ControlInv, Followed
  PROVE  /\ at = "follow" /\ answer # "none" /\ answer' = "none" /\ call = None
         /\ WorkerQuiet /\ UNCHANGED <<helper, role, step, undo, entry, leaves>>
         /\ running # None /\ CommandTyped(running) /\ running.follow
         /\ \/ /\ at' = "command" /\ running' # None /\ CommandTyped(running') /\ answer = "ok"
               /\ CallTyped(call') /\ call' # None /\ call'.stage = "sent" /\ call'.op = "set"
               /\ call'.field = running'.field /\ call'.v = running'.v
               /\ \/ running'.field = Camera
                  \/ /\ running.field[2] \in FlowSet
                     /\ running'.field = Mute(running.field[2], seen.hw[Route(running.field[2], role)].v)
                     /\ Present(seen, running.field[2], seen.hw[Route(running.field[2], role)].v)
                     /\ running'.v = running.v
               /\ running'.follow /\ running'.field[2] = running.field[2]
               /\ outcome' = outcome
            \/ /\ at' \in {"finished", "suspended"} /\ call' = None /\ running' = running
               /\ outcome' \in Outcomes /\ outcome'.result # "ok" /\ outcome'.whole = outcome.whole
<1> DEFINE f == running.field[2]
           e == seen.hw[Route(f, role)].v
           field == IF f = "camera" THEN Camera ELSE Mute(f, e)
           v == IF f = "camera" THEN [seen.hw[Camera].v EXCEPT !.on = running.v.on] ELSE running.v
<1>1. /\ at = "follow" /\ answer # "none" /\ answer' = "none"
      /\ UNCHANGED <<helper, role, step, undo, entry, leaves>> /\ WorkerQuiet
  BY WorkerFrame DEF Followed, locals
<1>2. /\ call = None /\ running # None /\ CommandTyped(running) /\ running.follow
      /\ Inventory(seen.hw) /\ role \in RoleSet /\ outcome \in Outcomes
  BY <1>1 DEF ControlInv, TypeOK, HelperTypes, CoordinatorTypes, TxTypes
<1>3. /\ running.field \in Fields /\ running.field[1] \in {"mute", "camera"}
      /\ running.v \in Values(running.field)
  BY <1>2 DEF CommandTyped, Commands
<1>4. \/ f \in FlowSet /\ f # "camera" /\ Values(running.field) = BOOLEAN
      \/ f = "camera" /\ Values(running.field) = [source : Cameras, on : BOOLEAN]
  BY <1>3, FieldKinds, ValuesOf, FlowsAreDevices
<1>5. \/ /\ answer = "ok" /\ (f = "camera" \/ Present(seen, f, e))
         /\ at' = "command"
         /\ running' = [running EXCEPT !.field = field, !.v = v]
         /\ Ask("set", field, v, seen.hw[field].rev)
         /\ outcome' = outcome
      \/ /\ ~(answer = "ok" /\ (f = "camera" \/ Present(seen, f, e)))
         /\ EndRun(IF answer = "ok" THEN "failed" ELSE answer, TRUE)
         /\ running' = running /\ call' = call
  BY DEF Followed
<1>6. CASE /\ answer = "ok" /\ (f = "camera" \/ Present(seen, f, e))
           /\ at' = "command"
           /\ running' = [running EXCEPT !.field = field, !.v = v]
           /\ Ask("set", field, v, seen.hw[field].rev)
           /\ outcome' = outcome
  <2>1. /\ field \in Fields /\ field[1] \in {"mute", "camera"} /\ field[2] = f /\ v \in Values(field)
        /\ \/ field = Camera
           \/ f \in FlowSet /\ field = Mute(f, e) /\ Present(seen, f, e) /\ v = running.v
    <3>1. CASE f = "camera"
      <4>1. Camera \in Fields /\ Values(Camera) = [source : Cameras, on : BOOLEAN]
        BY FieldMembers, FieldValues
      <4>2. seen.hw[Camera].v \in [source : Cameras, on : BOOLEAN]
        BY <1>2, <4>1, InventoryCell
      <4>3. running.v.on \in BOOLEAN
        BY <1>3, <1>4, <3>1, FlowsAreDevices
      <4>4. v \in Values(Camera)
        BY <3>1, <4>1, <4>2, <4>3
      <4> QED BY <3>1, <4>1, <4>4, CameraName
    <3>2. CASE f # "camera"
      <4>1. f \in FlowSet /\ running.v \in BOOLEAN
        BY <1>3, <1>4, <3>2
      <4>2. e \in Endpoints /\ Present(seen, f, e)
        BY <1>2, <1>6, <3>2, <4>1, RouteValue DEF Present
      <4>3. Mute(f, e) \in Fields /\ Values(Mute(f, e)) = BOOLEAN /\ Mute(f, e)[1] = "mute" /\ Mute(f, e)[2] = f
        BY <4>1, <4>2, FieldMembers, FieldValues, MuteName
      <4> QED BY <3>2, <4>1, <4>2, <4>3
    <3> QED BY <3>1, <3>2
  <2> HIDE DEF field, v
  <2>2. seen.hw[field].rev \in Nat
    BY <1>2, <2>1, InventoryCell
  <2>3. /\ CallTyped(call') /\ call' # None /\ call'.stage = "sent" /\ call'.op = "set"
        /\ call'.field = field /\ call'.v = v
    BY <1>6, <2>1, <2>2, AskSet
  <2>4. CommandTyped(running') /\ running' # None /\ running'.field = field /\ running'.v = v /\ running'.follow
    <3> DEFINE d == [running EXCEPT !.field = field, !.v = v]
               d1 == [running EXCEPT !.field = field]
    <3>1. running = [field |-> running.field, v |-> running.v, rev |-> running.rev, follow |-> running.follow]
      BY <1>2 DEF CommandTyped, Commands
    <3>2. running' = d
      BY <1>6
    <3>3. d = [d1 EXCEPT !.v = v]
      BY <3>1
    <3>4. d1 = [field |-> field, v |-> running.v, rev |-> running.rev, follow |-> running.follow]
      BY <3>1
    <3> HIDE DEF d, d1
    <3>5. d = [field |-> field, v |-> v, rev |-> running.rev, follow |-> running.follow]
      BY <3>3, <3>4
    <3>6. CommandTyped(d) /\ d # None /\ d.field = field /\ d.v = v /\ d.follow = running.follow
      <4>1. CommandTyped(running) /\ field \in Fields /\ v \in Values(field) /\ field[1] \in {"mute", "camera"}
        BY <1>2, <2>1
      <4> HIDE DEF f
      <4> QED BY <3>5, <4>1, CommandMoved
    <3> QED BY <1>2, <3>2, <3>6
  <2> QED BY <1>1, <1>2, <1>6, <2>1, <2>3, <2>4
<1>7. CASE /\ EndRun(IF answer = "ok" THEN "failed" ELSE answer, TRUE)
           /\ running' = running /\ call' = call
  <2>1. (IF answer = "ok" THEN "failed" ELSE answer) \in Results \ {"ok"}
    BY <1>1, AnswersAreResults DEF Results
  <2>2. /\ at' \in {"finished", "suspended"} /\ outcome' \in Outcomes /\ outcome'.result # "ok"
        /\ outcome'.whole = outcome.whole
    BY <1>2, <1>7, <2>1, EndRunStep
  <2> QED BY <1>1, <1>2, <1>7, <2>2
<1> QED BY <1>5, <1>6, <1>7

LEMMA AnsweredStep ==
  ASSUME TypeOK, ControlInv, Answered \/ Suspended
  PROVE  /\ at \in {"command", "observe", "suspend"} /\ at' \in {"finished", "suspended"}
         /\ answer # "none" /\ answer' = "none" /\ call = None /\ call' = None
         /\ WorkerQuiet /\ UNCHANGED <<running, role, step, undo, entry, leaves>>
         /\ outcome' \in Outcomes /\ outcome'.result = answer
         /\ outcome'.applied = outcome.applied /\ outcome'.whole = outcome.whole
<1>1. /\ at \in {"command", "observe", "suspend"} /\ answer # "none" /\ answer' = "none"
      /\ EndRun(answer, TRUE) /\ Worker
      /\ UNCHANGED <<hw, call, running, role, locals>>
  BY DEF Answered, Suspended
<1>2. outcome \in Outcomes /\ answer \in Results
  BY <1>1, AnswersAreResults DEF TypeOK, TxTypes
<1>3. /\ at' \in {"finished", "suspended"} /\ outcome' \in Outcomes /\ outcome'.result = answer
      /\ outcome'.applied = outcome.applied /\ outcome'.whole = outcome.whole
  BY <1>1, <1>2, EndRunStep
<1>4. call = None
  BY <1>1 DEF ControlInv
<1> QED BY <1>1, <1>3, <1>4, WorkerFrame DEF locals

LEMMA ProfileDoneStep ==
  ASSUME TypeOK, ControlInv, ProfileDone
  PROVE  /\ at = "done" /\ at' \in {"finished", "suspended"} /\ call' = None /\ answer' = "none"
         /\ call = None /\ answer = "none"
         /\ WorkerQuiet /\ running' = running
         /\ role' = IF outcome.applied THEN profile.first ELSE role
         /\ step' = 1 /\ entry' = None /\ undo' = <<>> /\ leaves' = {}
         /\ outcome' \in Outcomes /\ outcome'.whole = outcome.whole /\ outcome'.result = outcome.result
<1>1. /\ at = "done" /\ EndRun(outcome.result, outcome.known)
      /\ UNCHANGED <<hw, call, answer, running>> /\ Worker
      /\ role' = IF outcome.applied THEN profile.first ELSE role
      /\ step' = 1 /\ entry' = None /\ undo' = <<>> /\ leaves' = {}
  BY DEF ProfileDone, NoTransaction
<1>2. outcome \in Outcomes /\ outcome.result \in Results
  BY OutcomeFields DEF TypeOK, TxTypes
<1>3. /\ at' \in {"finished", "suspended"} /\ outcome' \in Outcomes /\ outcome'.whole = outcome.whole
      /\ outcome'.result = outcome.result
  BY <1>1, <1>2, EndRunStep
<1> QED BY <1>1, <1>3, WorkerFrame DEF ControlInv

LEMMA CompleteStep ==
  ASSUME TypeOK, ControlInv, Complete
  PROVE  /\ at \in {"finished", "suspended"} /\ at' \in {"idle", "queued"}
         /\ AskedTyped(asked') /\ running' = None
         /\ \/ shown' = [inv |-> seen, role |-> ShownRole]
            \/ shown' = [inv |-> [hw |-> shown.inv.hw, gone |-> shown.inv.gone, known |-> shown'.inv.known],
                         role |-> shown.role]
         /\ outcome' = NoOutcome
         /\ who' = [x \in Fields |-> "none"] /\ DOMAIN was' = {} /\ blind' = {}
         /\ UNCHANGED <<hw, gone, call, answer, seen, role, profile, step, entry, undo, leaves>>
<1>1. /\ at \in {"finished", "suspended"} /\ running' = None /\ Schedule(FALSE, [asked EXCEPT !.busy = StillBusy])
      /\ shown' = IF stateKnown THEN [inv |-> seen, role |-> ShownRole]
                  ELSE [shown EXCEPT !.inv.known = @ /\ outcome.result = "ok"]
      /\ outcome' = NoOutcome /\ Fresh
      /\ UNCHANGED <<hw, gone, call, answer, seen, role, profile, step, entry, undo, leaves>>
  BY DEF Complete, link, locals
<1>2. AskedTyped(asked) /\ shown = [inv |-> shown.inv, role |-> shown.role]
      /\ shown.inv = [hw |-> shown.inv.hw, gone |-> shown.inv.gone, known |-> shown.inv.known]
  BY DEF TypeOK, CoordinatorTypes
<1>3. StillBusy \in BOOLEAN
  BY DEF StillBusy
<1>4. AskedTyped([asked EXCEPT !.busy = StillBusy])
  <2> HIDE DEF StillBusy
  <2> QED BY <1>2, <1>3, AskedUpdate
<1>5. AskedTyped(asked') /\ at' \in {"idle", "queued"}
  BY <1>1, <1>4, ScheduleTyped
<1>6. \/ shown' = [inv |-> seen, role |-> ShownRole]
      \/ shown' = [inv |-> [hw |-> shown.inv.hw, gone |-> shown.inv.gone, known |-> shown'.inv.known],
                   role |-> shown.role]
  <2>1. ASSUME NEW k, shown' = [shown EXCEPT !.inv.known = k]
        PROVE  shown' = [inv |-> [hw |-> shown.inv.hw, gone |-> shown.inv.gone, known |-> shown'.inv.known],
                         role |-> shown.role]
    <3>1. shown' = [shown EXCEPT !.inv = [shown.inv EXCEPT !.known = k]]
      BY <1>2, <2>1
    <3>2. [shown.inv EXCEPT !.known = k] = [hw |-> shown.inv.hw, gone |-> shown.inv.gone, known |-> k]
      BY <1>2
    <3>3. shown' = [inv |-> [hw |-> shown.inv.hw, gone |-> shown.inv.gone, known |-> k], role |-> shown.role]
      BY <1>2, <3>1, <3>2
    <3> QED BY <3>3
  <2> DEFINE k == shown.inv.known /\ outcome.result = "ok"
  <2>2. CASE ~stateKnown
    <3>1. shown' = [shown EXCEPT !.inv.known = k]
      BY <1>1, <2>2
    <3> HIDE DEF k
    <3> QED BY <2>1, <3>1
  <2> QED BY <1>1, <2>2
<1> QED BY <1>1, <1>5, <1>6, FreshStep

-----------------------------------------------------------------------------
(* The transaction's steps                                                  *)

TxQuiet == UNCHANGED <<hw, gone, who, helper, seen, was, blind, raced, profile>>
TxOutside == UNCHANGED <<asked, running, role, shown>>

LEMMA UndisturbedFrame == ASSUME Undisturbed, profile' = profile PROVE TxQuiet
BY DEF Undisturbed, TxQuiet, world, histories

LEMMA OutsideFrame == ASSUME UNCHANGED outside PROVE TxOutside
BY DEF outside, TxOutside, uiVars, runVars

\* What a stage is about is a setting and a value of it.
LEMMA StageTyped ==
  ASSUME TypeOK, NEW i \in DOMAIN Plan, i # Len(Plan)
  PROVE  /\ Target(Plan[i]) \in Fields
         /\ Wanted(Plan[i]) \in Values(Target(Plan[i]))
<1>1. profile \in Profiles /\ Inventory(seen.hw)
  BY DEF TypeOK, TxTypes, HelperTypes
<1>2. profile.endpoint \in Endpoints /\ profile.camera \in Cameras /\ profile.level \in Levels
  BY <1>1, ProfileTyped
<1> DEFINE s == Plan[i]
<1>3. /\ s.op \in {"mute", "level", "route", "camera"}
      /\ s.op \in {"mute", "level", "route"} => s.flow \in FlowSet
      /\ s.op = "route" => s.role \in RoleSet
  BY <1>1, PlanStages
<1> SUFFICES Target(s) \in Fields /\ Wanted(s) \in Values(Target(s))
  OBVIOUS
<1> HIDE DEF s
<1>4. CASE s.op = "mute"
  <2>1. Target(s) = Mute(s.flow, profile.endpoint) /\ Wanted(s) = TRUE
    BY <1>4 DEF Target, Wanted
  <2>2. Wanted(s) \in BOOLEAN
    BY <2>1
  <2>3. Target(s) \in Fields /\ Values(Target(s)) = BOOLEAN
    BY <1>2, <1>3, <1>4, <2>1, FieldMembers, FieldValues
  <2> QED BY <2>2, <2>3
<1>5. CASE s.op = "level"
  <2>1. Target(s) = Level(s.flow, profile.endpoint) /\ Wanted(s) = profile.level
    BY <1>5 DEF Target, Wanted
  <2> QED BY <1>2, <1>3, <1>5, <2>1, FieldMembers, FieldValues
<1>6. CASE s.op = "route"
  <2>1. Target(s) = Route(s.flow, s.role) /\ Wanted(s) = profile.endpoint
    BY <1>6 DEF Target, Wanted
  <2> QED BY <1>2, <1>3, <1>6, <2>1, FieldMembers, FieldValues
<1>7. CASE s.op = "camera"
  <2>1. Target(s) = Camera /\ Wanted(s) = [seen.hw[Camera].v EXCEPT !.source = profile.camera]
    BY <1>7 DEF Target, Wanted
  <2>2. Camera \in Fields /\ Values(Camera) = [source : Cameras, on : BOOLEAN]
    BY FieldMembers, FieldValues
  <2>3. seen.hw[Camera].v \in [source : Cameras, on : BOOLEAN]
    BY <1>1, <2>2, InventoryCell
  <2>4. Wanted(s) \in [source : Cameras, on : BOOLEAN]
    BY <1>2, <2>1, <2>3
  <2> QED BY <2>1, <2>2, <2>4
<1> QED BY <1>3, <1>4, <1>5, <1>6, <1>7

LEMMA EntryFields ==
  ASSUME NEW e, EntryTyped(e)
  PROVE  e # None /\ e.field \in Fields /\ e.rev \in Nat /\ e.restorable \in BOOLEAN
BY ProfileAssumption DEF EntryTyped, Entries

LEMMA CompensationTyped ==
  ASSUME TypeOK, NEW s, Target(s) \in Fields
  PROVE  /\ EntryTyped(Compensation(s))
         /\ Compensation(s).field = Target(s)
         /\ Compensation(s).old = seen.hw[Target(s)].v
         /\ Compensation(s).rev = seen.hw[Target(s)].rev
<1> DEFINE x == Target(s)
           b == s.op = "route" => Present(seen, s.flow, seen.hw[x].v)
<1>1. Compensation(s) = [field |-> x, old |-> seen.hw[x].v, rev |-> seen.hw[x].rev, restorable |-> b]
  BY DEF Compensation
<1>2. x \in Fields /\ b \in BOOLEAN
  OBVIOUS
<1> HIDE DEF x, b
<1>3. seen.hw[x].v \in Values(x) /\ seen.hw[x].rev \in Nat
  BY <1>2, InventoryCell DEF TypeOK, HelperTypes
<1>4. seen.hw[x].v \in AnyValue
  BY <1>2, <1>3, ValuesAreValues
<1>5. Compensation(s) \in Entries
  BY <1>1, <1>2, <1>3, <1>4 DEF Entries
<1> QED BY <1>1, <1>3, <1>5 DEF EntryTyped, x

LEMMA RevisionTyped ==
  ASSUME TypeOK, NEW x \in Fields
  PROVE  /\ Revision(x) \in Nat
         /\ Revision(x) = 0 \/ Revision(x) = seen.hw[x].rev
BY InventoryCell DEF Revision, TypeOK, HelperTypes

LEMMA PreflightStep ==
  ASSUME TypeOK, ControlInv, Preflight
  PROVE  /\ at = "first" /\ answer # "none" /\ answer' = "none" /\ call = None /\ call' = None
         /\ TxQuiet /\ UNCHANGED <<step, entry, undo>> /\ entry = None /\ undo = <<>> /\ ~outcome.applied
         /\ leaves' = {f \in FlowSet : Silent(seen, f, seen.hw[Route(f, profile.first)].v)}
         /\ \/ /\ at' = "stage" /\ outcome' = outcome /\ answer = "ok"
               /\ \A f \in FlowSet : Present(seen, f, profile.endpoint)
            \/ at' = "done" /\ outcome' \in Outcomes /\ ~outcome'.applied /\ outcome'.whole = outcome.whole
<1>1. /\ at = "first" /\ answer # "none" /\ answer' = "none" /\ call' = call
      /\ TxQuiet /\ UNCHANGED <<step, entry, undo>>
      /\ leaves' = {f \in FlowSet : Silent(seen, f, seen.hw[Route(f, profile.first)].v)}
  BY UndisturbedFrame DEF Preflight
<1>2. call = None /\ outcome \in Outcomes /\ ~outcome.applied /\ entry = None /\ undo = <<>>
  BY <1>1 DEF ControlInv, TypeOK, TxTypes
<1> DEFINE r == IF answer = "lost" THEN "lost" ELSE "failed"
           k == answer # "lost"
<1>3. \/ at' = "stage" /\ outcome' = outcome /\ answer = "ok" /\ \A f \in FlowSet : Present(seen, f, profile.endpoint)
      \/ at' = "done" /\ outcome' = [outcome EXCEPT !.result = r, !.known = k]
  BY DEF Preflight, Finish
<1>4. r \in Results /\ k \in BOOLEAN
  BY DEF Results
<1> HIDE DEF r, k
<1>5. ASSUME outcome' = [outcome EXCEPT !.result = r, !.known = k]
      PROVE  outcome' \in Outcomes /\ ~outcome'.applied /\ outcome'.whole = outcome.whole
  BY <1>2, <1>4, <1>5 DEF Outcomes
<1> QED BY <1>1, <1>2, <1>3, <1>5

LEMMA StageFacts ==
  ASSUME TypeOK, ControlInv, at = "stage"
  PROVE  /\ profile \in Profiles /\ step \in DOMAIN Plan /\ outcome \in Outcomes /\ ~outcome.applied
         /\ StageCall
         /\ Now.op \in {"mute", "level", "route", "camera", "verify"}
         /\ Now.op = "verify" <=> step = Len(Plan)
         /\ Now.op # "verify" => step # Len(Plan) /\ Target(Now) \in Fields /\ Wanted(Now) \in Values(Target(Now))
<1>1. profile \in Profiles /\ step \in DOMAIN Plan /\ outcome \in Outcomes /\ ~outcome.applied /\ StageCall
  BY DEF ControlInv, StageCall, TypeOK, TxTypes
<1>2. /\ Now.op \in {"mute", "level", "route", "camera", "verify"}
      /\ Now.op = "verify" <=> step = Len(Plan)
  BY <1>1, PlanStages DEF Now
<1>3. Now.op # "verify" => Target(Now) \in Fields /\ Wanted(Now) \in Values(Target(Now))
  BY <1>1, <1>2, StageTyped DEF Now
<1> QED BY <1>1, <1>2, <1>3

\* A stage is skipped, sent, read back at the end, or ends the work.
RunStageSkips == /\ at' = at /\ outcome' = outcome /\ entry' = None /\ call' = None
                 /\ step' = step + 1 /\ Now.op # "verify"
                 /\ ~Needed(Now) \/ Already(Now)
                 /\ Now.op = "mute" => Reachable(seen, Target(Now), Wanted(Now))
RunStageAborts == /\ at' = "rollback" /\ step' = step /\ entry' = None /\ call' = None
                  /\ outcome' \in Outcomes /\ outcome'.applied = outcome.applied
                  /\ outcome'.whole = outcome.whole
RunStageSends == /\ at' = at /\ step' = step /\ outcome' = outcome /\ Now.op # "verify"
                 /\ Needed(Now) /\ ~Already(Now) /\ Reachable(seen, Target(Now), Wanted(Now))
                 /\ published = {}
                 /\ entry' = Compensation(Now) /\ CallTyped(call') /\ call' # None
                 /\ call'.op = "set" /\ call'.stage = "sent" /\ call'.field = Target(Now)
                 /\ call'.v = Wanted(Now) /\ call'.rev = seen.hw[Target(Now)].rev
RunStageReads == /\ at' = at /\ step' = step /\ outcome' = outcome /\ Now.op = "verify"
                 /\ published = {}
                 /\ entry' = None /\ CallTyped(call') /\ call' # None
                 /\ call'.op = "observe" /\ call'.stage = "sent"

LEMMA RunStageStep ==
  ASSUME TypeOK, ControlInv, RunStage
  PROVE  /\ at = "stage" /\ call = None /\ answer = "none" /\ answer' = "none" /\ entry = None
         /\ TxQuiet /\ UNCHANGED <<undo, leaves, published>>
         /\ RunStageSkips \/ RunStageAborts \/ RunStageSends \/ RunStageReads
<1>1. /\ at = "stage" /\ call = None /\ answer = "none" /\ answer' = "none"
      /\ TxQuiet /\ UNCHANGED <<undo, leaves, published>>
  BY UndisturbedFrame DEF RunStage, InStage
<1>2. entry = None /\ outcome \in Outcomes
  BY <1>1, StageFacts DEF StageCall
<1> DEFINE s == Now
           missing == s.op # "verify" /\ ~Reachable(seen, Target(s), Wanted(s))
           skip == step' = step + 1 /\ UNCHANGED <<at, outcome, entry, call>>
           abort(result) == /\ GiveUp([outcome EXCEPT !.result = result])
                            /\ UNCHANGED <<step, entry, call>>
           send == /\ entry' = IF s.op = "verify" THEN None ELSE Compensation(s)
                   /\ IF s.op = "verify"
                        THEN Ask("observe", None, None, 0)
                        ELSE Ask("set", Target(s), Wanted(s), seen.hw[Target(s)].rev)
                   /\ UNCHANGED <<at, step, outcome>>
<1>3. IF s.op = "mute" /\ missing THEN abort("failed")
      ELSE IF ~Needed(s) \/ (s.op = "mute" /\ Already(s)) THEN skip
      ELSE IF published # {} THEN abort("superseded")
      ELSE IF s.op = "route" /\ Already(s) THEN skip
      ELSE IF missing THEN abort("failed")
      ELSE IF Already(s) THEN skip
      ELSE IF time # "work" THEN abort("late")
      ELSE send
  BY DEF RunStage
<1> HIDE DEF skip, abort, send, missing, s
<1>4. \/ \E r \in Results : abort(r)
      \/ skip /\ (~Needed(s) \/ Already(s)) /\ (s.op = "mute" => ~missing)
      \/ send /\ Needed(s) /\ ~Already(s) /\ ~missing /\ published = {}
  BY <1>3 DEF Results
<1>5. ASSUME NEW r \in Results, abort(r) PROVE RunStageAborts
  <2>1. outcome' = [outcome EXCEPT !.result = r] /\ at' = "rollback" /\ UNCHANGED <<step, entry, call>>
    BY <1>5 DEF abort, GiveUp
  <2> QED BY <1>1, <1>2, <2>1, OutcomeResult DEF RunStageAborts
<1>6. ASSUME skip, ~Needed(s) \/ Already(s), s.op = "mute" => ~missing PROVE RunStageSkips
  <2>1. Now.op # "verify"
    BY <1>6 DEF Needed, Already, s
  <2> QED BY <1>1, <1>2, <1>6, <2>1 DEF RunStageSkips, skip, missing, s
<1>7. ASSUME send, Needed(s), ~Already(s), ~missing, published = {} PROVE RunStageSends \/ RunStageReads
  <2>1. CASE Now.op = "verify"
    <3>1. entry' = None /\ Ask("observe", None, None, 0) /\ UNCHANGED <<at, step, outcome>>
      BY <1>7, <2>1 DEF send, s
    <3>2. CallTyped(call') /\ call' # None /\ call'.op = "observe" /\ call'.stage = "sent"
      BY <3>1, AskPlain
    <3> QED BY <1>7, <2>1, <3>1, <3>2 DEF RunStageReads
  <2>2. CASE Now.op # "verify"
    <3>1. /\ entry' = Compensation(Now) /\ Ask("set", Target(Now), Wanted(Now), seen.hw[Target(Now)].rev)
          /\ UNCHANGED <<at, step, outcome>>
      BY <1>7, <2>2 DEF send, s
    <3>2. Target(Now) \in Fields /\ Wanted(Now) \in Values(Target(Now))
      BY <1>1, <2>2, StageFacts
    <3>3. seen.hw[Target(Now)].rev \in Nat
      BY <3>2, InventoryCell DEF TypeOK, HelperTypes
    <3>4. /\ CallTyped(call') /\ call' # None /\ call'.op = "set" /\ call'.stage = "sent"
          /\ call'.field = Target(Now) /\ call'.v = Wanted(Now) /\ call'.rev = seen.hw[Target(Now)].rev
      BY <3>1, <3>2, <3>3, AskSet
    <3>5. Needed(Now) /\ ~Already(Now) /\ Reachable(seen, Target(Now), Wanted(Now))
      BY <1>7, <2>2 DEF s, missing
    <3> QED BY <1>7, <2>2, <3>1, <3>4, <3>5 DEF RunStageSends
  <2> QED BY <2>1, <2>2
<1> QED BY <1>1, <1>2, <1>4, <1>5, <1>6, <1>7

\* The stack of compensations.
LEMMA Pushed ==
  ASSUME undo \in Seq(Entries), NEW u \in Entries, NEW s, s = <<u>> \o undo
  PROVE  /\ s \in Seq(Entries) /\ s[1] = u /\ 1 \in DOMAIN s
         /\ \A i \in DOMAIN undo : i + 1 \in DOMAIN s /\ s[i + 1] = undo[i]
         /\ \A j \in DOMAIN s : j = 1 \/ (j - 1 \in DOMAIN undo /\ s[j] = undo[j - 1])
<1> DEFINE n == Len(undo)
<1>1. n \in Nat /\ DOMAIN undo = 1 .. n
  OBVIOUS
<1>2. <<u>> \in Seq(Entries) /\ Len(<<u>>) = 1 /\ <<u>>[1] = u
  OBVIOUS
<1>3. s \in Seq(Entries) /\ Len(s) = 1 + n /\ s[1] = u /\ \A i \in 1 .. n : s[1 + i] = undo[i]
  <2> DEFINE t == <<u>>
  <2>1. t \in Seq(Entries) /\ Len(t) = 1 /\ t[1] = u /\ s = t \o undo
    BY <1>2
  <2> HIDE DEF t
  <2>2. s \in Seq(Entries) /\ Len(s) = Len(t) + Len(undo)
    BY <2>1, Parts
  <2>3. \A i \in 1 .. Len(t) : s[i] = t[i]
    BY <2>1, Parts
  <2>4. \A i \in 1 .. Len(undo) : s[Len(t) + i] = undo[i]
    BY <2>1, Parts
  <2> QED BY <2>1, <2>2, <2>3, <2>4
<1> HIDE DEF n
<1>4. DOMAIN s = 1 .. 1 + n
  BY <1>1, <1>3
<1>5. \A i \in DOMAIN undo : i + 1 \in DOMAIN s /\ s[i + 1] = undo[i]
  BY <1>1, <1>3, <1>4
<1>6. ASSUME NEW j \in DOMAIN s, j # 1
      PROVE  j - 1 \in DOMAIN undo /\ s[j] = undo[j - 1]
  <2>1. j - 1 \in 1 .. n /\ 1 + (j - 1) = j
    BY <1>1, <1>4, <1>6
  <2> QED BY <1>1, <1>3, <2>1
<1> QED BY <1>1, <1>3, <1>4, <1>5, <1>6

LEMMA Popped ==
  ASSUME undo \in Seq(Entries), undo # <<>>, NEW s, s = Tail(undo)
  PROVE  /\ s \in Seq(Entries) /\ Head(undo) = undo[1] /\ 1 \in DOMAIN undo
         /\ \A i \in DOMAIN s : i + 1 \in DOMAIN undo /\ s[i] = undo[i + 1]
         /\ \A j \in DOMAIN undo : j = 1 \/ (j - 1 \in DOMAIN s /\ s[j - 1] = undo[j])
BY HeadTailProperties

StageApplied == /\ at' = "done" /\ outcome' \in Outcomes /\ outcome'.applied /\ outcome'.whole = outcome.whole
                /\ entry = None /\ Now.op = "verify" /\ answer = "ok" /\ Matches(seen)
                /\ UNCHANGED <<step, undo>>
StageMismatched == /\ at' = "rollback" /\ outcome' \in Outcomes /\ ~outcome'.applied
                   /\ outcome'.whole = outcome.whole
                   /\ entry = None /\ UNCHANGED <<step, undo>>
StageSucceeded == /\ at' = at /\ outcome' = outcome /\ answer = "ok" /\ entry # None
                  /\ step' = step + 1 /\ undo' = <<[entry EXCEPT !.rev = Revision(entry.field)]>> \o undo
StageFailed == /\ at' = "rollback" /\ outcome' \in Outcomes /\ ~outcome'.applied
               /\ outcome'.whole => /\ outcome.whole /\ answer = "failed"
                                    /\ Revision(entry.field) = entry.rev
               /\ entry # None /\ answer # "ok" /\ UNCHANGED <<step, undo>>

LEMMA StageAnsweredStep ==
  ASSUME TypeOK, ControlInv, StageAnswered
  PROVE  /\ at = "stage" /\ answer # "none" /\ answer' = "none" /\ call = None /\ call' = None
         /\ entry' = None /\ TxQuiet /\ UNCHANGED <<leaves, published>>
         /\ StageApplied \/ StageMismatched \/ StageSucceeded \/ StageFailed
<1>1. /\ at = "stage" /\ answer # "none" /\ answer' = "none" /\ call' = call
      /\ entry' = None /\ TxQuiet /\ UNCHANGED <<leaves, published>>
  BY UndisturbedFrame DEF StageAnswered
<1>2. /\ call = None /\ outcome \in Outcomes /\ ~outcome.applied /\ StageCall
      /\ answer \in Results /\ answer \in {"ok", "failed", "lost"}
  BY <1>1, StageFacts, AnswersAreResults DEF ControlInv, TypeOK, HelperTypes
<1> DEFINE known == outcome.known /\ answer # "lost"
           failed == [outcome EXCEPT !.result = answer, !.known = known]
<1>3. known \in BOOLEAN
  OBVIOUS
<1>4. failed \in Outcomes /\ ~failed.applied /\ failed.whole = outcome.whole /\ failed.known = known
  <2> HIDE DEF known
  <2> QED BY <1>2, <1>3 DEF Outcomes
<1>5. CASE entry = None
  <2>1. Now.op = "verify"
    BY <1>1, <1>2, <1>5 DEF StageCall
  <2>2. /\ IF answer = "ok" /\ Matches(seen)
             THEN at' = "done" /\ outcome' = [outcome EXCEPT !.applied = TRUE]
             ELSE at' = "rollback" /\ outcome' = IF answer = "ok" THEN [outcome EXCEPT !.result = "failed"] ELSE failed
        /\ UNCHANGED <<step, undo>>
    BY <1>5 DEF StageAnswered, Finish, GiveUp
  <2> HIDE DEF failed, known
  <2>3. [outcome EXCEPT !.applied = TRUE] \in Outcomes /\ [outcome EXCEPT !.applied = TRUE].applied
        /\ [outcome EXCEPT !.applied = TRUE].whole = outcome.whole
    BY <1>2 DEF Outcomes
  <2>4. [outcome EXCEPT !.result = "failed"] \in Outcomes /\ ~[outcome EXCEPT !.result = "failed"].applied
        /\ [outcome EXCEPT !.result = "failed"].whole = outcome.whole
    BY <1>2 DEF Outcomes, Results
  <2>5. CASE answer = "ok" /\ Matches(seen)
    BY <1>1, <1>2, <1>5, <2>1, <2>2, <2>3, <2>5 DEF StageApplied
  <2>6. CASE ~(answer = "ok" /\ Matches(seen))
    BY <1>1, <1>2, <1>4, <1>5, <2>2, <2>4, <2>6 DEF StageMismatched
  <2> QED BY <1>1, <1>2, <2>5, <2>6
<1>6. CASE entry # None /\ answer = "ok"
  <2>1. StageSucceeded
    BY <1>1, <1>6 DEF StageAnswered, Succeeded, StageSucceeded
  <2> QED BY <1>1, <1>2, <2>1
<1>7. CASE entry # None /\ answer # "ok"
  <2> DEFINE w == failed.whole /\ known /\ Revision(entry.field) = entry.rev
  <2>1. at' = "rollback" /\ outcome' = [failed EXCEPT !.whole = w] /\ UNCHANGED <<step, undo>>
    BY <1>7 DEF StageAnswered, Succeeded, GiveUp
  <2>2. w \in BOOLEAN /\ (w => outcome.whole /\ answer # "lost" /\ Revision(entry.field) = entry.rev)
    BY <1>4
  <2> HIDE DEF w, failed, known
  <2>3. outcome' \in Outcomes /\ ~outcome'.applied /\ (outcome'.whole => w)
    BY <1>4, <2>1, <2>2 DEF Outcomes
  <2>4. StageFailed
    BY <1>1, <1>2, <1>7, <2>1, <2>2, <2>3 DEF StageFailed
  <2> QED BY <1>1, <1>2, <2>4
<1> QED BY <1>5, <1>6, <1>7

CompensateEnds == /\ undo = <<>> /\ at' = "done" /\ outcome' = outcome /\ undo' = undo /\ call' = None
CompensateSends == /\ undo # <<>> /\ at' = at /\ undo' = Tail(undo) /\ outcome' = outcome
                   /\ undo[1].restorable /\ undo[1].field[2] \notin published
                   /\ CallTyped(call') /\ call' # None /\ call'.op = "set" /\ call'.stage = "sent"
                   /\ call'.field = undo[1].field /\ call'.v = undo[1].old
                   /\ call'.rev = undo[1].rev /\ call'.rev # 0
CompensateSkips == /\ undo # <<>> /\ at' = at /\ undo' = Tail(undo) /\ call' = None
                   /\ outcome' \in Outcomes /\ ~outcome'.whole /\ outcome'.applied = outcome.applied

LEMMA CompensateStep ==
  ASSUME TypeOK, ControlInv, Compensate
  PROVE  /\ at = "rollback" /\ call = None /\ answer = "none" /\ answer' = "none"
         /\ TxQuiet /\ UNCHANGED <<step, leaves, entry, published>> /\ entry = None
         /\ ~outcome.applied /\ outcome \in Outcomes
         /\ CompensateEnds \/ CompensateSends \/ CompensateSkips
<1>1. /\ at = "rollback" /\ call = None /\ answer = "none" /\ answer' = "none"
      /\ TxQuiet /\ UNCHANGED <<step, leaves, entry, published>>
  BY UndisturbedFrame DEF Compensate
<1>2. entry = None /\ ~outcome.applied /\ outcome \in Outcomes
  BY <1>1 DEF ControlInv, TypeOK, TxTypes
<1>3. CASE undo = <<>>
  <2>1. CompensateEnds
    BY <1>1, <1>3 DEF Compensate, Finish, CompensateEnds
  <2> QED BY <1>1, <1>2, <2>1
<1>4. CASE undo # <<>>
  <2> DEFINE u == Head(undo)
  <2>1. u = undo[1] /\ EntryTyped(u)
    BY <1>4, Popped DEF TypeOK, TxTypes
  <2>2. u.field \in Fields /\ u.old \in Values(u.field) /\ u.rev \in Nat
    BY <2>1, EntryFields DEF EntryTyped
  <2>3. /\ undo' = Tail(undo) /\ at' = at
        /\ IF /\ u.restorable
              /\ u.field[2] \notin published
              /\ Revision(u.field) = u.rev /\ u.rev # 0
              /\ time # "over"
             THEN Ask("set", u.field, u.old, u.rev) /\ outcome' = outcome
             ELSE call' = None /\ outcome' = [outcome EXCEPT !.whole = FALSE]
    BY <1>4 DEF Compensate
  <2> HIDE DEF u
  <2>4. CASE /\ u.restorable /\ u.field[2] \notin published
             /\ Revision(u.field) = u.rev /\ u.rev # 0 /\ time # "over"
    <3>1. Ask("set", u.field, u.old, u.rev) /\ outcome' = outcome
      BY <2>3, <2>4
    <3>2. /\ CallTyped(call') /\ call' # None /\ call'.op = "set" /\ call'.stage = "sent"
          /\ call'.field = u.field /\ call'.v = u.old /\ call'.rev = u.rev
      BY <2>2, <3>1, AskSet
    <3>3. CompensateSends
      BY <1>4, <2>1, <2>3, <2>4, <3>1, <3>2 DEF CompensateSends
    <3> QED BY <1>1, <1>2, <3>3
  <2>5. CASE ~(/\ u.restorable /\ u.field[2] \notin published
               /\ Revision(u.field) = u.rev /\ u.rev # 0 /\ time # "over")
    <3>1. call' = None /\ outcome' = [outcome EXCEPT !.whole = FALSE]
      BY <2>3, <2>5
    <3>2. outcome' \in Outcomes /\ ~outcome'.whole /\ outcome'.applied = outcome.applied
      BY <1>2, <3>1 DEF Outcomes
    <3>3. CompensateSkips
      BY <1>4, <2>3, <3>1, <3>2 DEF CompensateSkips
    <3> QED BY <1>1, <1>2, <3>3
  <2> QED BY <2>4, <2>5
<1> QED BY <1>3, <1>4

LEMMA CompensatedStep ==
  ASSUME TypeOK, ControlInv, Compensated
  PROVE  /\ at = "rollback" /\ at' = at /\ answer # "none" /\ answer' = "none" /\ call = None /\ call' = None
         /\ TxQuiet /\ UNCHANGED <<step, leaves, entry, undo, published>> /\ entry = None
         /\ outcome' \in Outcomes /\ ~outcome'.applied
         /\ outcome'.whole => outcome.whole /\ answer = "ok"
<1>1. /\ at = "rollback" /\ at' = at /\ answer # "none" /\ answer' = "none" /\ call' = call
      /\ TxQuiet /\ UNCHANGED <<step, leaves, entry, undo, published>>
      /\ outcome' = Undone
  BY UndisturbedFrame DEF Compensated
<1>2. entry = None /\ ~outcome.applied /\ outcome \in Outcomes /\ call = None
  BY <1>1 DEF ControlInv, TypeOK, TxTypes
<1> DEFINE w == outcome.whole /\ answer = "ok"
           k == outcome.known /\ answer # "lost"
<1>3. outcome' = [outcome EXCEPT !.whole = w, !.known = k]
  BY <1>1 DEF Undone
<1>4. w \in BOOLEAN /\ k \in BOOLEAN
  OBVIOUS
<1>5. outcome' \in Outcomes /\ ~outcome'.applied /\ (outcome'.whole => w)
  <2> HIDE DEF w, k
  <2> QED BY <1>2, <1>3, <1>4 DEF Outcomes
<1> QED BY <1>1, <1>2, <1>5

-----------------------------------------------------------------------------
(* The types and the control invariant are kept                             *)

LEMMA PlanSame == ASSUME profile' = profile PROVE Plan' = Plan
BY DEF Plan, RouteStages

LEMMA NowSame ==
  ASSUME profile' = profile, step' = step
  PROVE  /\ Plan' = Plan /\ Now' = Now /\ Target(Now)' = Target(Now)
         /\ seen'.hw = seen.hw => Wanted(Now)' = Wanted(Now)
<1>1. Plan' = Plan
  BY PlanSame
<1>2. Now' = Now
  BY <1>1 DEF Now
<1>3. Target(Now)' = Target(Now)
  BY <1>2 DEF Target
<1>4. seen'.hw = seen.hw => Wanted(Now)' = Wanted(Now)
  BY <1>2 DEF Wanted
<1> QED BY <1>1, <1>2, <1>3, <1>4

Inv1 == TypeOK /\ ControlInv

LEMMA HelperTypesStep ==
  ASSUME TypeOK, Inventory(hw'), seen' = seen,
         who' \in [Fields -> {"none", "redxe", "other"}],
         \/ was' = was
         \/ DOMAIN was' = {},
         blind' \subseteq Fields,
         call' # None => CallTyped(call'),
         answer' \in {"none", "ok", "failed", "lost"}
  PROVE  HelperTypes'
BY DEF TypeOK, HelperTypes, Inventory

LEMMA TxTypesSame == ASSUME TypeOK, UNCHANGED <<profile, step, entry, undo, outcome>> PROVE TxTypes'
BY DEF TypeOK, TxTypes

LEMMA CoordinatorTypesSame ==
  ASSUME TypeOK, AskedTyped(asked'), running' # None => CommandTyped(running'), role' \in RoleSet, shown' = shown
  PROVE  CoordinatorTypes'
BY DEF TypeOK, CoordinatorTypes, Inventory

LEMMA TypeParts ==
  ASSUME TypeOK
  PROVE  /\ Inventory(hw) /\ Inventory(seen.hw) /\ who \in [Fields -> {"none", "redxe", "other"}]
         /\ blind \subseteq Fields /\ (call # None => CallTyped(call))
         /\ answer \in {"none", "ok", "failed", "lost"}
         /\ profile \in Profiles /\ step \in Nat \ {0} /\ (entry # None => EntryTyped(entry))
         /\ undo \in Seq(Entries) /\ (\A i \in DOMAIN undo : EntryTyped(undo[i])) /\ outcome \in Outcomes
         /\ AskedTyped(asked) /\ (running # None => CommandTyped(running)) /\ role \in RoleSet
         /\ Inventory(shown.inv.hw) /\ shown.role \in RoleSet
BY DEF TypeOK, HelperTypes, TxTypes, CoordinatorTypes

LEMMA StageCallSame ==
  ASSUME StageCall, UNCHANGED <<profile, step, entry, call, answer, seen>> PROVE StageCall'
<1>1. /\ Plan' = Plan /\ Now' = Now /\ Target(Now)' = Target(Now) /\ Wanted(Now)' = Wanted(Now)
  BY NowSame
<1> QED BY <1>1 DEF StageCall

LEMMA ControlSame ==
  ASSUME ControlInv, UNCHANGED <<profile, step, entry, undo, outcome, call, answer, seen, running>>,
         Queues
  PROVE  ControlInv'
<1>1. at = "stage" => StageCall'
  BY StageCallSame DEF ControlInv
<1> QED BY <1>1 DEF ControlInv, Queues

LEMMA Inv1Ui == ASSUME Inv1, User \/ Prepare \/ Changed PROVE Inv1'
<1>1. Still /\ Queues /\ AskedTyped(asked')
  BY UiStep DEF Inv1
<1>2. HelperTypes'
  BY <1>1, HelperTypesStep, TypeParts DEF Inv1, Still
<1>3. TxTypes' /\ CoordinatorTypes'
  BY <1>1, TxTypesSame, CoordinatorTypesSame, TypeParts DEF Inv1, Still
<1>4. ControlInv'
  BY <1>1, ControlSame DEF Inv1, Still
<1> QED BY <1>2, <1>3, <1>4 DEF Inv1, TypeOK

LEMMA NoOwner == [x \in Fields |-> "none"] \in [Fields -> {"none", "redxe", "other"}]
OBVIOUS

LEMMA Inv1Complete == ASSUME Inv1, Complete PROVE Inv1'
<1>1. /\ at \in {"finished", "suspended"} /\ at' \in {"idle", "queued"}
      /\ AskedTyped(asked') /\ running' = None
      /\ \/ shown' = [inv |-> seen, role |-> ShownRole]
         \/ shown' = [inv |-> [hw |-> shown.inv.hw, gone |-> shown.inv.gone, known |-> shown'.inv.known],
                      role |-> shown.role]
      /\ outcome' = NoOutcome
      /\ who' = [x \in Fields |-> "none"] /\ DOMAIN was' = {} /\ blind' = {}
      /\ UNCHANGED <<hw, gone, call, answer, seen, role, profile, step, entry, undo, leaves>>
  BY CompleteStep DEF Inv1
<1>2. TypeOK /\ call = None /\ answer = "none" /\ entry = None /\ undo = <<>>
  BY <1>1 DEF Inv1, ControlInv
<1>3. HelperTypes'
  BY <1>1, <1>2, HelperTypesStep, TypeParts, NoOwner
<1>4. TxTypes'
  BY <1>1, <1>2, NoOutcomeFacts DEF TypeOK, TxTypes
<1>5. CoordinatorTypes'
  <2>0. ShownRole \in RoleSet
    BY <1>2, TypeParts, DeviceAssumption DEF ShownRole, RoleSet
  <2>1. /\ shown' = [inv |-> shown'.inv, role |-> shown'.role] /\ shown'.role \in RoleSet
        /\ shown'.inv = [hw |-> shown'.inv.hw, gone |-> shown'.inv.gone, known |-> shown'.inv.known]
        /\ shown'.inv.hw \in {seen.hw, shown.inv.hw}
    BY <1>1, <1>2, <2>0 DEF TypeOK, CoordinatorTypes, HelperTypes
  <2>2. Inventory(shown'.inv.hw)
    BY <1>2, <2>1, TypeParts
  <2> QED BY <1>1, <1>2, <2>1, <2>2, TypeParts DEF CoordinatorTypes, Inventory
<1>6. ControlInv'
  BY <1>1, <1>2, NoOutcomeFacts DEF ControlInv
<1> QED BY <1>3, <1>4, <1>5, <1>6 DEF Inv1, TypeOK

-----------------------------------------------------------------------------
(* The helper's and the world's steps                                       *)

LEMMA HelperFrame == ASSUME UNCHANGED <<published, time, txVars, outside>> PROVE HelperQuiet
BY DEF txVars, outside, uiVars, runVars, HelperQuiet

\* The command that is out stays, moves on, or is answered.
CallSteps ==
  \/ UNCHANGED <<call, answer, seen>>
  \/ /\ call # None /\ call' # None /\ UNCHANGED <<answer, seen>>
     /\ call'.op = call.op /\ call'.field = call.field /\ call'.v = call.v /\ call'.rev = call.rev
  \/ call # None /\ call' = None /\ answer' # "none"

LEMMA ControlQuiet ==
  ASSUME ControlInv, HelperQuiet, CallSteps
  PROVE  ControlInv'
<1>1. /\ Plan' = Plan /\ Now' = Now /\ Target(Now)' = Target(Now)
      /\ seen'.hw = seen.hw => Wanted(Now)' = Wanted(Now)
  BY NowSame DEF HelperQuiet
<1>2. at = "stage" => StageCall'
  <2>1. CASE UNCHANGED <<call, answer, seen>>
    BY <1>1, <2>1 DEF ControlInv, StageCall, HelperQuiet
  <2>2. CASE /\ call # None /\ call' # None /\ UNCHANGED <<answer, seen>>
             /\ call'.op = call.op /\ call'.field = call.field /\ call'.v = call.v /\ call'.rev = call.rev
    BY <1>1, <2>2 DEF ControlInv, StageCall, HelperQuiet
  <2>3. CASE call # None /\ call' = None /\ answer' # "none"
    BY <1>1, <2>3 DEF ControlInv, StageCall, HelperQuiet
  <2> QED BY <2>1, <2>2, <2>3 DEF CallSteps
<1>3. CASE UNCHANGED <<call, answer, seen>>
  BY <1>2, <1>3 DEF ControlInv, HelperQuiet
<1>4. CASE /\ call # None /\ call' # None /\ UNCHANGED <<answer, seen>>
           /\ call'.op = call.op /\ call'.field = call.field /\ call'.v = call.v /\ call'.rev = call.rev
  BY <1>2, <1>4 DEF ControlInv, HelperQuiet
<1>5. CASE call # None /\ call' = None /\ answer' # "none"
  BY <1>2, <1>5 DEF ControlInv, HelperQuiet
<1> QED BY <1>3, <1>4, <1>5 DEF CallSteps

LEMMA Inv1Quiet ==
  ASSUME Inv1, HelperQuiet, CallSteps, HelperTypes'
  PROVE  Inv1'
<1>1. TxTypes' /\ CoordinatorTypes'
  BY TxTypesSame, CoordinatorTypesSame, TypeParts DEF Inv1, HelperQuiet
<1>2. ControlInv'
  BY ControlQuiet DEF Inv1
<1> QED BY <1>1, <1>2 DEF Inv1, TypeOK

LEMMA HelperSteps ==
  ASSUME Inv1, HelperStep, HelperQuiet
  PROVE  Inv1'
<1>1. TypeOK
  BY DEF Inv1
<1>1a. CASE Compare
  <2>1. /\ call # None /\ call.field \in Fields
        /\ hw[call.field].v \in Values(call.field)
        /\ DOMAIN was \subseteq Fields /\ \A x \in DOMAIN was : was[x] \in Values(x)
        /\ DOMAIN was' = DOMAIN was \cup {call.field}
        /\ \A x \in DOMAIN was : was'[x] = was[x]
        /\ call.field \notin DOMAIN was => was'[call.field] = hw[call.field].v
    BY <1>1, <1>1a, CompareStep, InventoryCell DEF TypeOK, HelperTypes
  <2>2. DOMAIN was' \subseteq Fields /\ \A x \in DOMAIN was' : was'[x] \in Values(x)
    BY <2>1
  <2>3. /\ CallTyped(call') /\ call' # None
        /\ call'.op = call.op /\ call'.field = call.field /\ call'.v = call.v /\ call'.rev = call.rev
        /\ UNCHANGED <<hw, who, answer, seen, blind>>
    BY <1>1, <1>1a, CompareStep
  <2>4. HelperTypes'
    BY <1>1, <2>2, <2>3 DEF TypeOK, HelperTypes, Inventory
  <2>5. CallSteps
    BY <2>1, <2>3 DEF CallSteps
  <2> QED BY <2>4, <2>5, Inv1Quiet
<1>2. CASE Mutate
  <2>1. /\ Inventory(hw') /\ who' \in [Fields -> {"none", "redxe", "other"}]
        /\ call # None /\ CallTyped(call') /\ call' # None
        /\ call'.op = call.op /\ call'.field = call.field /\ call'.v = call.v /\ call'.rev = call.rev
        /\ UNCHANGED <<answer, seen, was, blind>>
    BY <1>1, <1>2, MutateStep
  <2>2. HelperTypes'
    BY <1>1, <2>1, HelperTypesStep, TypeParts
  <2>3. CallSteps
    BY <2>1 DEF CallSteps
  <2> QED BY <2>2, <2>3, Inv1Quiet
<1>3. CASE Refuse
  <2>1. /\ call # None /\ CallTyped(call') /\ call' # None
        /\ call'.op = call.op /\ call'.field = call.field /\ call'.v = call.v /\ call'.rev = call.rev
        /\ UNCHANGED <<hw, who, answer, seen, was, blind>>
    BY <1>1, <1>3, RefuseStep
  <2>2. HelperTypes'
    BY <1>1, <2>1, HelperTypesStep, TypeParts
  <2>3. CallSteps
    BY <2>1 DEF CallSteps
  <2> QED BY <2>2, <2>3, Inv1Quiet
<1>4. CASE ReadBack
  <2>1. /\ call # None /\ call' = None /\ answer' \in {"ok", "failed"}
        /\ seen' = [hw |-> hw, gone |-> gone, known |-> TRUE]
        /\ UNCHANGED <<hw, who, was, blind>>
    BY <1>1, <1>4, ReadBackStep
  <2>2. seen' = [hw |-> seen'.hw, gone |-> seen'.gone, known |-> seen'.known] /\ seen'.hw = hw
    BY <2>1
  <2>3. HelperTypes'
    BY <1>1, <2>1, <2>2 DEF TypeOK, HelperTypes, Inventory
  <2>4. CallSteps
    BY <2>1 DEF CallSteps
  <2> QED BY <2>3, <2>4, Inv1Quiet
<1>5. CASE ReadBackFails
  <2>1. /\ call # None /\ CallTyped(call) /\ (call.op = "observe" \/ call.stage \in {"changed", "refused"})
        /\ seen'.hw = seen.hw /\ seen'.gone = seen.gone
        /\ seen' = [hw |-> seen'.hw, gone |-> seen'.gone, known |-> seen'.known]
        /\ call' = None /\ answer' = "failed"
        /\ blind' = IF call.stage = "changed" THEN blind \cup {call.field} ELSE blind
        /\ UNCHANGED <<hw, gone, who, helper, was, raced>>
    BY <1>1, <1>5, ReadBackFailsStep
  <2>2. call.stage = "changed" => call.field \in Fields
    BY <2>1 DEF CallTyped, Calls
  <2>3. blind' \subseteq Fields
    BY <1>1, <2>1, <2>2, TypeParts
  <2>4. HelperTypes'
    BY <1>1, <2>1, <2>3 DEF TypeOK, HelperTypes, Inventory
  <2>5. CallSteps
    BY <2>1 DEF CallSteps
  <2> QED BY <2>4, <2>5, Inv1Quiet
<1>6. CASE Suspend
  <2>1. /\ call # None /\ call' = None /\ answer' = "ok" /\ UNCHANGED <<hw, who, seen, was, blind>>
    BY <1>1, <1>6, SuspendStep
  <2>2. HelperTypes'
    BY <1>1, <2>1, HelperTypesStep, TypeParts
  <2>3. CallSteps
    BY <2>1 DEF CallSteps
  <2> QED BY <2>2, <2>3, Inv1Quiet
<1>7. CASE Lose
  <2>1. /\ call # None /\ call' = None /\ answer' = "lost" /\ Faded
        /\ UNCHANGED <<who, seen, was, blind>>
    BY <1>1, <1>7, LoseStep
  <2>2. HelperTypes'
    BY <1>1, <2>1, HelperTypesStep, TypeParts DEF Faded
  <2>3. CallSteps
    BY <2>1 DEF CallSteps
  <2> QED BY <2>2, <2>3, Inv1Quiet
<1> QED BY <1>1a, <1>2, <1>3, <1>4, <1>5, <1>6, <1>7 DEF HelperStep

LEMMA Inv1Crash == ASSUME Inv1, Crash, HelperQuiet PROVE Inv1'
<1>1. Faded /\ UNCHANGED <<who, call, answer, seen, was, blind>>
  BY CrashStep DEF Inv1
<1>2. HelperTypes'
  BY <1>1, HelperTypesStep, TypeParts DEF Faded, Inv1
<1> QED BY <1>1, <1>2, Inv1Quiet DEF CallSteps

LEMMA Inv1World == ASSUME Inv1, World, HelperQuiet PROVE Inv1'
<1>1. Disturbed
  BY WorldStep DEF Inv1
<1>2. HelperTypes'
  BY <1>1, HelperTypesStep, TypeParts DEF Disturbed, Inv1
<1> QED BY <1>1, <1>2, Inv1Quiet DEF CallSteps, Disturbed

LEMMA TimeFrame ==
  ASSUME TimePasses, UNCHANGED outside
  PROVE  /\ HelperQuiet
         /\ UNCHANGED <<hw, gone, who, helper, watching, changed, call, answer, seen, was, blind, raced, published>>
BY DEF TimePasses, HelperQuiet, txVars, outside, uiVars, runVars, world, link, histories

LEMMA Inv1Time == ASSUME Inv1, TimePasses, UNCHANGED outside PROVE Inv1'
<1>1. /\ HelperQuiet
      /\ UNCHANGED <<hw, gone, who, helper, call, answer, seen, was, blind, raced>>
  BY TimeFrame
<1>2. HelperTypes'
  BY <1>1, HelperTypesStep, TypeParts DEF Inv1
<1> QED BY <1>1, <1>2, Inv1Quiet DEF CallSteps

-----------------------------------------------------------------------------
(* The worker's steps                                                       *)

LEMMA Inv1Begun ==
  ASSUME Inv1, Begun, AskedTyped(asked'), running' # None => CommandTyped(running'), ControlInv'
  PROVE  Inv1'
<1>1. HelperTypes'
  <2>1. call' # None => CallTyped(call')
    BY DEF Begun
  <2> QED BY <2>1, HelperTypesStep, NoOwner DEF Begun, Inv1
<1>2. TxTypes'
  <2>1. undo' = <<>> /\ entry' = None /\ profile' \in Profiles /\ step' \in Nat \ {0} /\ outcome' \in Outcomes
    BY DEF Begun
  <2>2. undo' \in Seq(Entries) /\ \A i \in DOMAIN undo' : EntryTyped(undo'[i])
    BY <2>1
  <2> QED BY <2>1, <2>2 DEF TxTypes, EntryTyped
<1>3. CoordinatorTypes'
  BY CoordinatorTypesSame, TypeParts DEF Begun, Inv1
<1> QED BY <1>1, <1>2, <1>3 DEF Inv1, TypeOK

LEMMA Inv1Take ==
  ASSUME Inv1, (\E l \in Lanes : RunCommand(l)) \/ RunProfile \/ ApplyProfile \/ RunObserve
  PROVE  Begun /\ Inv1'
<1>1. ASSUME NEW l \in Lanes, RunCommand(l) PROVE Begun /\ Inv1'
  BY <1>1, RunCommandStep, Inv1Begun DEF Inv1
<1>2. CASE RunProfile
  BY <1>2, RunProfileStep, Inv1Begun DEF Inv1
<1>2a. CASE ApplyProfile
  <2>1. Begun /\ ControlInv' /\ UNCHANGED <<asked, running>>
    BY <1>2a, ApplyProfileStep DEF Inv1
  <2> QED BY <2>1, Inv1Begun, TypeParts DEF Inv1
<1>3. CASE RunObserve
  BY <1>3, RunObserveStep, Inv1Begun DEF Inv1
<1> QED BY <1>1, <1>2, <1>2a, <1>3

LEMMA WorkerTypes ==
  ASSUME TypeOK, WorkerQuiet, answer' = "none", call' # None => CallTyped(call'),
         running' # None => CommandTyped(running'), role' \in RoleSet,
         step' \in Nat \ {0}, entry' = None \/ entry' = entry, undo' = <<>> \/ undo' = undo,
         outcome' \in Outcomes
  PROVE  TypeOK'
<1>1. HelperTypes'
  BY HelperTypesStep, TypeParts DEF WorkerQuiet
<1>2. TxTypes'
  <2>1. profile' \in Profiles
    BY TypeParts DEF WorkerQuiet
  <2>2. entry' # None => EntryTyped(entry')
    BY TypeParts
  <2>3. undo' \in Seq(Entries) /\ \A i \in DOMAIN undo' : EntryTyped(undo'[i])
    <3>1. CASE undo' = <<>>
      BY <3>1
    <3>2. CASE undo' = undo
      BY <3>2, TypeParts
    <3> QED BY <3>1, <3>2
  <2> QED BY <2>1, <2>2, <2>3 DEF TxTypes, EntryTyped
<1>3. CoordinatorTypes'
  BY CoordinatorTypesSame, TypeParts DEF WorkerQuiet
<1> QED BY <1>1, <1>2, <1>3 DEF TypeOK

LEMMA Inv1Ends ==
  ASSUME Inv1, Followed \/ Answered \/ Suspended \/ ProfileDone
  PROVE  Inv1'
<1> TypeOK /\ ControlInv
  BY DEF Inv1
<1>1. CASE Followed
  <2>1. /\ at = "follow" /\ answer' = "none" /\ WorkerQuiet /\ UNCHANGED <<role, step, undo, entry>>
        /\ running # None /\ CommandTyped(running)
        /\ \/ /\ at' = "command" /\ running' # None /\ CommandTyped(running')
              /\ CallTyped(call') /\ call'.op = "set"
              /\ call'.field = running'.field /\ call'.v = running'.v /\ outcome' = outcome
           \/ at' \in {"finished", "suspended"} /\ call' = None /\ running' = running /\ outcome' \in Outcomes
    BY <1>1, FollowedStep
  <2>2. TypeOK'
    BY <2>1, WorkerTypes, TypeParts
  <2>3. ControlInv'
    BY <2>1 DEF ControlInv
  <2> QED BY <2>2, <2>3 DEF Inv1
<1>2. CASE Answered \/ Suspended
  <2>1. /\ at \in {"command", "observe", "suspend"} /\ at' \in {"finished", "suspended"} /\ answer' = "none" /\ call' = None
        /\ WorkerQuiet /\ UNCHANGED <<running, role, step, undo, entry>> /\ outcome' \in Outcomes
    BY <1>2, AnsweredStep
  <2>2. TypeOK'
    BY <2>1, WorkerTypes, TypeParts
  <2>3. ControlInv'
    BY <2>1 DEF ControlInv
  <2> QED BY <2>2, <2>3 DEF Inv1
<1>3. CASE ProfileDone
  <2>1. /\ at' \in {"finished", "suspended"} /\ call' = None /\ answer' = "none" /\ WorkerQuiet /\ running' = running
        /\ role' = IF outcome.applied THEN profile.first ELSE role
        /\ step' = 1 /\ entry' = None /\ undo' = <<>> /\ outcome' \in Outcomes
    BY <1>3, ProfileDoneStep
  <2>2. role' \in RoleSet
    BY <2>1, ProfileTyped, TypeParts
  <2>3. TypeOK'
    BY <2>1, <2>2, WorkerTypes, TypeParts
  <2>4. ControlInv'
    BY <2>1 DEF ControlInv
  <2> QED BY <2>3, <2>4 DEF Inv1
<1> QED BY <1>1, <1>2, <1>3

LEMMA TxStepTypes ==
  ASSUME TypeOK, TxQuiet, TxOutside, answer' = "none", call' # None => CallTyped(call'),
         step' \in Nat \ {0}, entry' # None => EntryTyped(entry'),
         undo' \in Seq(Entries), \A i \in DOMAIN undo' : EntryTyped(undo'[i]),
         outcome' \in Outcomes
  PROVE  TypeOK'
<1>1. HelperTypes'
  BY HelperTypesStep, TypeParts DEF TxQuiet
<1>2. TxTypes'
  <2>1. profile' \in Profiles
    BY TypeParts DEF TxQuiet
  <2> QED BY <2>1 DEF TxTypes, EntryTyped
<1>3. CoordinatorTypes'
  BY CoordinatorTypesSame, TypeParts DEF TxOutside
<1> QED BY <1>1, <1>2, <1>3 DEF TypeOK

\* The stage after one that is not the last.
LEMMA NextStage ==
  ASSUME profile \in Profiles, step \in DOMAIN Plan, step # Len(Plan)
  PROVE  step + 1 \in DOMAIN Plan /\ step + 1 \in Nat \ {0}
<1> DEFINE L == Len(Plan)
<1>1. DOMAIN Plan = 1 .. L /\ L \in Nat
  BY PlanParts
<1> HIDE DEF L
<1>2. step \in 1 .. L /\ step # L
  BY <1>1 DEF L
<1>3. step + 1 \in 1 .. L
  BY <1>1, <1>2
<1> QED BY <1>1, <1>3

LEMMA FirstStage == ASSUME profile \in Profiles PROVE 1 \in DOMAIN Plan
<1> DEFINE L == Len(Plan)
<1>1. /\ DOMAIN Plan = 1 .. L /\ L \in Nat /\ RouteCount \in Nat /\ FlowCount \in Nat
      /\ L = 2 * FlowCount + RouteCount + 2
  BY PlanParts, FlowFacts
<1> HIDE DEF L
<1> QED BY <1>1

\* A new stage has no command out.
LEMMA StageReady ==
  ASSUME step' \in DOMAIN Plan, profile' = profile, call' = None, answer' = "none", entry' = None
  PROVE  StageCall'
BY PlanSame DEF StageCall

LEMMA Inv1RunStage == ASSUME Inv1, RunStage, UNCHANGED outside PROVE Inv1'
<1> TypeOK /\ ControlInv
  BY DEF Inv1
<1>1. /\ at = "stage" /\ call = None /\ answer = "none" /\ answer' = "none" /\ entry = None
      /\ TxQuiet /\ UNCHANGED <<undo, leaves, published>>
      /\ RunStageSkips \/ RunStageAborts \/ RunStageSends \/ RunStageReads
  BY RunStageStep
<1>2. TxOutside
  BY OutsideFrame
<1>3. /\ step \in DOMAIN Plan /\ outcome \in Outcomes /\ ~outcome.applied
      /\ Now.op = "verify" <=> step = Len(Plan)
      /\ Now.op # "verify" => Target(Now) \in Fields
      /\ profile \in Profiles /\ profile' = profile /\ step \in Nat \ {0}
      /\ undo \in Seq(Entries) /\ \A i \in DOMAIN undo : EntryTyped(undo[i])
  BY <1>1, StageFacts, TypeParts DEF TxQuiet
<1>4. CASE RunStageSkips
  <2>1. step + 1 \in DOMAIN Plan /\ step + 1 \in Nat \ {0}
    BY <1>3, <1>4, NextStage DEF RunStageSkips
  <2>2. TypeOK'
    BY <1>1, <1>2, <1>3, <1>4, <2>1, TxStepTypes DEF RunStageSkips
  <2>3. StageCall'
    BY <1>1, <1>3, <1>4, <2>1, StageReady DEF RunStageSkips
  <2>4. ControlInv'
    BY <1>1, <1>4, <2>3 DEF ControlInv, RunStageSkips
  <2> QED BY <2>2, <2>4 DEF Inv1
<1>5. CASE RunStageAborts
  <2>1. TypeOK'
    BY <1>1, <1>2, <1>3, <1>5, TxStepTypes DEF RunStageAborts
  <2>2. ControlInv'
    BY <1>1, <1>3, <1>5 DEF ControlInv, RunStageAborts
  <2> QED BY <2>1, <2>2 DEF Inv1
<1>6. CASE RunStageSends
  <2>1. EntryTyped(Compensation(Now)) /\ Compensation(Now).field = Target(Now)
        /\ Compensation(Now).rev = seen.hw[Target(Now)].rev /\ Compensation(Now) # None
    BY <1>3, <1>6, CompensationTyped, EntryFields DEF RunStageSends
  <2>2. TypeOK'
    BY <1>1, <1>2, <1>3, <1>6, <2>1, TxStepTypes DEF RunStageSends
  <2>3. Plan' = Plan /\ Now' = Now /\ Target(Now)' = Target(Now) /\ Wanted(Now)' = Wanted(Now)
    BY <1>1, <1>6, NowSame DEF TxQuiet, RunStageSends
  <2>4. StageCall'
    BY <1>1, <1>3, <1>6, <2>1, <2>3 DEF StageCall, RunStageSends
  <2>5. ControlInv'
    BY <1>1, <1>6, <2>4 DEF ControlInv, RunStageSends
  <2> QED BY <2>2, <2>5 DEF Inv1
<1>7. CASE RunStageReads
  <2>1. TypeOK'
    BY <1>1, <1>2, <1>3, <1>7, TxStepTypes DEF RunStageReads
  <2>2. Plan' = Plan /\ Now' = Now
    BY <1>1, <1>7, NowSame DEF TxQuiet, RunStageReads
  <2>3. StageCall'
    BY <1>1, <1>3, <1>7, <2>2 DEF StageCall, RunStageReads
  <2>4. ControlInv'
    BY <1>1, <1>7, <2>3 DEF ControlInv, RunStageReads
  <2> QED BY <2>1, <2>4 DEF Inv1
<1> QED BY <1>1, <1>4, <1>5, <1>6, <1>7

\* The compensation that is pushed carries the revision of the reply.
LEMMA PushedEntry ==
  ASSUME TypeOK, EntryTyped(entry)
  PROVE  LET u == [entry EXCEPT !.rev = Revision(entry.field)]
         IN  /\ EntryTyped(u) /\ u \in Entries
             /\ u.field = entry.field /\ u.old = entry.old /\ u.rev = Revision(entry.field)
             /\ u.restorable = entry.restorable
<1>1. entry \in Entries /\ entry.field \in Fields /\ entry.old \in Values(entry.field)
  BY EntryFields DEF EntryTyped
<1>2. Revision(entry.field) \in Nat
  BY <1>1, RevisionTyped
<1> DEFINE r == Revision(entry.field)
           u == [entry EXCEPT !.rev = r]
<1> HIDE DEF r
<1>3. u \in Entries /\ u.field = entry.field /\ u.old = entry.old /\ u.rev = r /\ u.restorable = entry.restorable
  BY <1>1, <1>2 DEF Entries, r
<1> HIDE DEF u
<1>4. EntryTyped(u)
  BY <1>1, <1>3 DEF EntryTyped
<1> QED BY <1>3, <1>4 DEF u, r

LEMMA Inv1StageAnswered == ASSUME Inv1, StageAnswered, UNCHANGED outside PROVE Inv1'
<1> TypeOK /\ ControlInv
  BY DEF Inv1
<1>1. /\ at = "stage" /\ answer # "none" /\ answer' = "none" /\ call = None /\ call' = None
      /\ entry' = None /\ TxQuiet /\ UNCHANGED <<leaves, published>>
      /\ StageApplied \/ StageMismatched \/ StageSucceeded \/ StageFailed
  BY StageAnsweredStep
<1>2. TxOutside
  BY OutsideFrame
<1>3. /\ step \in DOMAIN Plan /\ ~outcome.applied /\ StageCall
      /\ Now.op = "verify" <=> step = Len(Plan)
      /\ profile \in Profiles /\ profile' = profile /\ step \in Nat \ {0} /\ outcome \in Outcomes
      /\ undo \in Seq(Entries) /\ (\A i \in DOMAIN undo : EntryTyped(undo[i]))
      /\ entry # None => EntryTyped(entry)
  BY <1>1, StageFacts, TypeParts DEF TxQuiet
<1>4. CASE StageApplied
  <2>1. TypeOK'
    BY <1>1, <1>2, <1>3, <1>4, TxStepTypes DEF StageApplied
  <2>2. ControlInv'
    BY <1>1, <1>4 DEF ControlInv, StageApplied
  <2> QED BY <2>1, <2>2 DEF Inv1
<1>5. CASE StageMismatched
  <2>1. TypeOK'
    BY <1>1, <1>2, <1>3, <1>5, TxStepTypes DEF StageMismatched
  <2>2. ControlInv'
    BY <1>1, <1>5 DEF ControlInv, StageMismatched
  <2> QED BY <2>1, <2>2 DEF Inv1
<1>6. CASE StageFailed
  <2>1. TypeOK'
    BY <1>1, <1>2, <1>3, <1>6, TxStepTypes DEF StageFailed
  <2>2. ControlInv'
    BY <1>1, <1>6 DEF ControlInv, StageFailed
  <2> QED BY <2>1, <2>2 DEF Inv1
<1>7. CASE StageSucceeded
  <2> DEFINE u == [entry EXCEPT !.rev = Revision(entry.field)]
  <2>1. EntryTyped(u) /\ u \in Entries
    BY <1>3, <1>7, PushedEntry DEF StageSucceeded
  <2>2. undo' = <<u>> \o undo
    BY <1>7 DEF StageSucceeded
  <2> HIDE DEF u
  <2>3. /\ undo' \in Seq(Entries) /\ undo'[1] = u
        /\ \A j \in DOMAIN undo' : j = 1 \/ (j - 1 \in DOMAIN undo /\ undo'[j] = undo[j - 1])
    BY <1>3, <2>1, <2>2, Pushed
  <2>4. \A i \in DOMAIN undo' : EntryTyped(undo'[i])
    BY <1>3, <2>1, <2>3
  <2>5. step + 1 \in DOMAIN Plan /\ step + 1 \in Nat \ {0}
    BY <1>1, <1>3, <1>7, NextStage DEF StageSucceeded, StageCall
  <2>6. TypeOK'
    BY <1>1, <1>2, <1>3, <1>7, <2>3, <2>4, <2>5, TxStepTypes DEF StageSucceeded
  <2>7. StageCall'
    BY <1>1, <1>3, <1>7, <2>5, StageReady DEF StageSucceeded
  <2>8. ControlInv'
    BY <1>1, <1>7, <2>7 DEF ControlInv, StageSucceeded
  <2> QED BY <2>6, <2>8 DEF Inv1
<1> QED BY <1>1, <1>4, <1>5, <1>6, <1>7

LEMMA Inv1Preflight == ASSUME Inv1, Preflight, UNCHANGED outside PROVE Inv1'
<1> TypeOK /\ ControlInv
  BY DEF Inv1
<1>1. /\ at = "first" /\ answer # "none" /\ answer' = "none" /\ call = None /\ call' = None
      /\ TxQuiet /\ UNCHANGED <<step, entry, undo>> /\ entry = None /\ undo = <<>> /\ ~outcome.applied
      /\ \/ at' = "stage" /\ outcome' = outcome
         \/ at' = "done" /\ outcome' \in Outcomes /\ ~outcome'.applied
  BY PreflightStep
<1>2. TxOutside
  BY OutsideFrame
<1>3. /\ profile \in Profiles /\ profile' = profile /\ step' \in Nat \ {0} /\ outcome' \in Outcomes
      /\ undo' \in Seq(Entries) /\ \A i \in DOMAIN undo' : EntryTyped(undo'[i])
  BY <1>1, TypeParts DEF TxQuiet
<1>4. TypeOK'
  BY <1>1, <1>2, <1>3, TxStepTypes
<1>5. step' \in DOMAIN Plan
  BY <1>1, <1>3, FirstStage DEF ControlInv
<1>6. StageCall'
  BY <1>1, <1>3, <1>5, StageReady
<1>7. ControlInv'
  BY <1>1, <1>6 DEF ControlInv
<1> QED BY <1>4, <1>7 DEF Inv1

LEMMA Inv1Compensates == ASSUME Inv1, Compensate \/ Compensated, UNCHANGED outside PROVE Inv1'
<1> TypeOK /\ ControlInv
  BY DEF Inv1
<1>1. TxOutside
  BY OutsideFrame
<1>2. /\ step \in Nat \ {0} /\ outcome \in Outcomes
      /\ undo \in Seq(Entries) /\ \A i \in DOMAIN undo : EntryTyped(undo[i])
  BY TypeParts
<1>3. CASE Compensate
  <2>1. /\ at = "rollback" /\ call = None /\ answer = "none" /\ answer' = "none"
        /\ TxQuiet /\ UNCHANGED <<step, leaves, entry, published>> /\ entry = None
        /\ ~outcome.applied
        /\ CompensateEnds \/ CompensateSends \/ CompensateSkips
    BY <1>3, CompensateStep
  <2>2. CASE CompensateEnds
    <3>1. TypeOK'
      BY <1>1, <1>2, <2>1, <2>2, TxStepTypes DEF CompensateEnds
    <3>2. ControlInv'
      BY <2>1, <2>2 DEF ControlInv, CompensateEnds
    <3> QED BY <3>1, <3>2 DEF Inv1
  <2>3. CASE CompensateSends \/ CompensateSkips
    <3>1. undo # <<>> /\ undo' = Tail(undo) /\ at' = at /\ outcome' \in Outcomes /\ ~outcome'.applied
      BY <1>2, <2>1, <2>3 DEF CompensateSends, CompensateSkips
    <3>2. /\ undo' \in Seq(Entries)
          /\ \A i \in DOMAIN undo' : i + 1 \in DOMAIN undo /\ undo'[i] = undo[i + 1]
      BY <1>2, <3>1, Popped
    <3>3. \A i \in DOMAIN undo' : EntryTyped(undo'[i])
      BY <1>2, <3>2
    <3>4. call' # None => CallTyped(call') /\ call'.op = "set"
      BY <2>3 DEF CompensateSends, CompensateSkips
    <3>5. TypeOK'
      BY <1>1, <1>2, <2>1, <3>1, <3>2, <3>3, <3>4, TxStepTypes
    <3>6. ControlInv'
      BY <2>1, <3>1, <3>4 DEF ControlInv
    <3> QED BY <3>5, <3>6 DEF Inv1
  <2> QED BY <2>1, <2>2, <2>3
<1>4. CASE Compensated
  <2>1. /\ at = "rollback" /\ at' = at /\ answer' = "none" /\ call' = None
        /\ TxQuiet /\ UNCHANGED <<step, leaves, entry, undo, published>> /\ entry = None
        /\ outcome' \in Outcomes /\ ~outcome'.applied
    BY <1>4, CompensatedStep
  <2>2. TypeOK'
    BY <1>1, <1>2, <2>1, TxStepTypes
  <2>3. ControlInv'
    BY <2>1 DEF ControlInv
  <2> QED BY <2>2, <2>3 DEF Inv1
<1> QED BY <1>3, <1>4

\* The steps of the system, each with what it leaves alone.
LEMMA NextSteps ==
  ASSUME Next
  PROVE  \/ User \/ Prepare \/ Changed \/ Complete
         \/ (\E l \in Lanes : RunCommand(l)) \/ RunProfile \/ ApplyProfile \/ RunObserve
         \/ Followed \/ Answered \/ Suspended \/ ProfileDone
         \/ Preflight /\ UNCHANGED outside
         \/ RunStage /\ UNCHANGED outside
         \/ StageAnswered /\ UNCHANGED outside
         \/ (Compensate \/ Compensated) /\ UNCHANGED outside
         \/ HelperStep /\ UNCHANGED <<published, time, txVars, outside>>
         \/ Crash /\ UNCHANGED <<published, time, txVars, outside>>
         \/ TimePasses /\ UNCHANGED outside
         \/ Elsewhen
BY DEF Next, RunWork, Transaction

\* What the world does while the coordinator waits.
LEMMA ElsewhenStep ==
  ASSUME Elsewhen
  PROVE  /\ World /\ HelperQuiet /\ UNCHANGED <<published, time, ranProfile, crossed>>
         /\ muted' = {m \in muted : gone' = gone /\ \A x \in Fields : x[2] = m[1] => hw'[x] = hw[x]}
BY DEF Elsewhen, HelperQuiet, txVars, uiVars, runVars

LEMMA Inv1Init == ASSUME Init PROVE Inv1
<1>1. PICK start \in Starts : hw = [x \in Fields |-> [v |-> start[x], rev |-> 1]]
  BY DEF Init, HelperInit
<1>2. \A x \in Fields : start[x] \in Values(x)
  BY DeviceAssumption
<1>3. \A x \in Fields : hw[x].v = start[x] /\ hw[x].rev = 1 /\ hw[x] = [v |-> hw[x].v, rev |-> hw[x].rev]
  BY <1>1
<1>4. hw = [x \in Fields |-> hw[x]]
  BY <1>1
<1>5. Inventory(hw)
  BY <1>2, <1>3, <1>4 DEF Inventory
<1>6. seen = [hw |-> hw, gone |-> {}, known |-> FALSE] /\ role = 0 /\ shown = [inv |-> seen, role |-> role]
      /\ who = [x \in Fields |-> "none"] /\ was = <<>> /\ blind = {} /\ call = None /\ answer = "none"
  BY DEF Init, HelperInit
<1>7. seen = [hw |-> seen.hw, gone |-> seen.gone, known |-> seen.known] /\ seen.hw = hw
  BY <1>6
<1>8. shown = [inv |-> shown.inv, role |-> shown.role] /\ shown.inv = seen /\ shown.role = 0
  BY <1>6
<1>9. HelperTypes
  <2>1. DOMAIN was = {}
    BY <1>6
  <2> QED BY <1>5, <1>6, <1>7, <2>1, NoOwner DEF HelperTypes
<1>10. TxTypes
  <2>1. profile \in Profiles /\ step = 1 /\ entry = None /\ undo = <<>> /\ outcome = NoOutcome
    BY DEF Init
  <2> QED BY <2>1, NoOutcomeFacts DEF TxTypes
<1>11. CoordinatorTypes
  <2>1. asked = Nothing /\ running = None
    BY DEF Init
  <2>2. 0 \in RoleSet
    BY DeviceAssumption DEF RoleSet
  <2>3. shown.inv = [hw |-> shown.inv.hw, gone |-> shown.inv.gone, known |-> shown.inv.known]
    BY <1>7, <1>8
  <2>4. Inventory(shown.inv.hw)
    BY <1>5, <1>7, <1>8
  <2> QED BY <1>6, <1>8, <2>1, <2>2, <2>3, <2>4, NothingTyped DEF CoordinatorTypes
<1>12. ControlInv
  BY <1>6 DEF Init, ControlInv
<1> QED BY <1>9, <1>10, <1>11, <1>12 DEF Inv1, TypeOK

LEMMA Inv1Next == ASSUME Inv1, [Next]_vars PROVE Inv1'
<1>1. CASE UNCHANGED vars
  <2>1. HelperQuiet /\ UNCHANGED <<hw, gone, who, call, answer, seen, was, blind>>
    BY <1>1 DEF vars, helperVars, world, link, histories, txVars, uiVars, runVars, HelperQuiet
  <2>2. HelperTypes'
    BY <2>1, HelperTypesStep, TypeParts DEF Inv1
  <2> QED BY <2>1, <2>2, Inv1Quiet DEF CallSteps
<1>2. CASE User \/ Prepare \/ Changed
  BY <1>2, Inv1Ui
<1>3. CASE Complete
  BY <1>3, Inv1Complete
<1>4. CASE (\E l \in Lanes : RunCommand(l)) \/ RunProfile \/ ApplyProfile \/ RunObserve
  BY <1>4, Inv1Take
<1>5. CASE Followed \/ Answered \/ Suspended \/ ProfileDone
  BY <1>5, Inv1Ends
<1>6. CASE Preflight /\ UNCHANGED outside
  BY <1>6, Inv1Preflight
<1>7. CASE RunStage /\ UNCHANGED outside
  BY <1>7, Inv1RunStage
<1>8. CASE StageAnswered /\ UNCHANGED outside
  BY <1>8, Inv1StageAnswered
<1>9. CASE (Compensate \/ Compensated) /\ UNCHANGED outside
  BY <1>9, Inv1Compensates
<1>10. CASE HelperStep /\ UNCHANGED <<published, time, txVars, outside>>
  BY <1>10, HelperFrame, HelperSteps
<1>11. CASE Crash /\ UNCHANGED <<published, time, txVars, outside>>
  BY <1>11, HelperFrame, Inv1Crash
<1>12. CASE TimePasses /\ UNCHANGED outside
  BY <1>12, Inv1Time
<1>13. CASE Elsewhen
  BY <1>13, ElsewhenStep, Inv1World
<1> QED
  BY <1>1, <1>2, <1>3, <1>4, <1>5, <1>6, <1>7, <1>8, <1>9, <1>10, <1>11, <1>12, <1>13, NextSteps

-----------------------------------------------------------------------------
(* The steps, by what they do to a transaction                              *)

\* Time passes, or the UI thread asks for something.
Unmoved ==
  /\ UNCHANGED <<hw, gone, who, helper, call, answer, seen, was, blind, raced,
                 profile, step, entry, undo, leaves, outcome, role, running>>
  /\ Queues

\* No transaction is past its first observation.
Outside ==
  /\ at' \notin {"stage", "rollback", "done"}
  /\ call' # None => call'.stage = "sent"
  /\ at' = "first" => DOMAIN was' = {} /\ blind' = {} /\ answer' = "none"

LEMMA StepKinds ==
  ASSUME Inv1, [Next]_vars
  PROVE  \/ Unmoved \/ Outside
         \/ Preflight \/ RunStage \/ StageAnswered \/ Compensate \/ Compensated
         \/ HelperQuiet /\ (Compare \/ Mutate \/ Refuse \/ ReadBack \/ ReadBackFails \/ Lose \/ Crash \/ World)
<1> TypeOK /\ ControlInv
  BY DEF Inv1
<1>1. CASE UNCHANGED vars
  <2>1. Unmoved
    BY <1>1 DEF vars, helperVars, world, link, histories, txVars, uiVars, runVars, Unmoved, Queues
  <2> QED BY <2>1
<1>2. CASE User \/ Prepare \/ Changed
  <2>1. Unmoved
    BY <1>2, UiStep DEF Still, Unmoved
  <2> QED BY <2>1
<1>3. CASE TimePasses /\ UNCHANGED outside
  <2>1. Unmoved
    BY <1>3, TimeFrame DEF HelperQuiet, Unmoved, Queues
  <2> QED BY <2>1
<1>4. CASE Complete
  <2>1. at \in {"finished", "suspended"} /\ at' \in {"idle", "queued"} /\ call' = call
    BY <1>4, CompleteStep
  <2>2. Outside
    BY <2>1 DEF Outside, ControlInv
  <2> QED BY <2>2
<1>5. CASE (\E l \in Lanes : RunCommand(l)) \/ RunProfile \/ ApplyProfile \/ RunObserve
  <2>1. Outside
    BY <1>5, Inv1Take DEF Begun, Outside
  <2> QED BY <2>1
<1>6. CASE Followed \/ Answered \/ Suspended \/ ProfileDone
  <2>1. at' \in {"command", "finished", "suspended"} /\ (call' # None => call'.stage = "sent")
    BY <1>6, FollowedStep, AnsweredStep, ProfileDoneStep
  <2>2. Outside
    BY <2>1 DEF Outside
  <2> QED BY <2>2
<1>7. CASE HelperStep /\ UNCHANGED <<published, time, txVars, outside>>
  <2>1. HelperQuiet
    BY <1>7, HelperFrame
  <2>2. CASE Suspend
    <3>1. call # None /\ call.op = "suspend" /\ call' = None
      BY <2>2, SuspendStep
    <3>2. at = "suspend"
      <4>1. at = "stage" => call.op \in {"observe", "set"}
        BY <3>1 DEF ControlInv, StageCall
      <4> QED BY <3>1, <4>1 DEF ControlInv
    <3>3. at' = "suspend"
      BY <2>1, <3>2 DEF HelperQuiet
    <3>4. Outside
      BY <3>1, <3>3 DEF Outside
    <3> QED BY <3>4
  <2> QED BY <1>7, <2>1, <2>2 DEF HelperStep
<1>8. CASE Crash /\ UNCHANGED <<published, time, txVars, outside>>
  BY <1>8, HelperFrame
<1>9. CASE Elsewhen
  BY <1>9, ElsewhenStep
<1> QED BY <1>1, <1>2, <1>3, <1>4, <1>5, <1>6, <1>7, <1>8, <1>9, NextSteps

-----------------------------------------------------------------------------
(* Whose change a field holds                                               *)

\* A revision the transaction was told is its own, or it was overtaken.
Owned(x, r) == \/ x \in raced \/ r = 0
               \/ hw[x].rev > r
               \/ hw[x].rev = r /\ who[x] = "redxe"

OwnedInv ==
  /\ call # None /\ call.stage = "changed" => who[call.field] = "redxe" \/ call.field \in raced
  /\ at = "rollback" /\ call # None /\ call.stage = "checked" =>
       who[call.field] = "redxe" \/ call.field \in raced
  /\ at = "stage" /\ answer = "ok" /\ entry # None => Owned(entry.field, seen.hw[entry.field].rev)
  /\ \A i \in DOMAIN undo : Owned(undo[i].field, undo[i].rev)
  /\ at = "rollback" /\ call # None => call.rev # 0 /\ Owned(call.field, call.rev)

\* While one helper lives, revisions grow and RedXe's changes are its own.
Aging ==
  /\ raced \subseteq raced'
  /\ \A x \in Fields : \/ hw'[x].rev > hw[x].rev
                       \/ hw'[x].rev = hw[x].rev /\ who'[x] \in {who[x], "redxe"}

LEMMA OwnedAges ==
  ASSUME TypeOK, TypeOK', Aging, NEW x \in Fields, NEW r \in Nat, Owned(x, r)
  PROVE  Owned(x, r)'
<1>1. hw[x].rev \in Nat /\ hw'[x].rev \in Nat
  <2>1. Inventory(hw) /\ Inventory(hw')
    BY DEF TypeOK, HelperTypes, Inventory
  <2> QED BY <2>1, InventoryCell
<1> QED BY <1>1 DEF Aging, Owned

LEMMA QuietAges == ASSUME UNCHANGED <<hw, who, raced>> PROVE Aging
BY DEF Aging

LEMMA StepsAge ==
  ASSUME TypeOK, TypeOK', Compare \/ Mutate \/ Refuse \/ ReadBack \/ ReadBackFails \/ Lose \/ Crash \/ World
  PROVE  Aging
<1>1. CASE Mutate
  <2>1. /\ call.field \in Fields /\ who'[call.field] = "redxe" /\ raced' = raced
        /\ \A y \in Fields \ {call.field} : hw'[y] = hw[y] /\ who'[y] = who[y]
        /\ hw[call.field].v = call.v => hw'[call.field].rev = hw[call.field].rev
        /\ hw[call.field].v # call.v => hw'[call.field].rev = hw[call.field].rev + 1
    BY <1>1, MutateStep
  <2>2. hw[call.field].rev \in Nat
    BY <2>1, TypeParts, InventoryCell
  <2> QED BY <2>1, <2>2 DEF Aging
<1>2. CASE Compare \/ Refuse \/ ReadBack \/ ReadBackFails
  <2>1. UNCHANGED <<hw, who, raced>>
    BY <1>2, CompareStep, RefuseStep, ReadBackStep, ReadBackFailsStep
  <2> QED BY <2>1, QuietAges
<1>3. CASE Lose \/ Crash
  <2>1. Faded /\ UNCHANGED <<who, raced>>
    BY <1>3, LoseStep, CrashStep
  <2> QED BY <2>1 DEF Faded, Aging
<1>4. CASE World
  BY <1>4, WorldStep DEF Disturbed, Aging
<1> QED BY <1>1, <1>2, <1>3, <1>4

\* What is known of a compensation, or of a command, concerns a setting.
LEMMA OwnedFields ==
  ASSUME Inv1
  PROVE  /\ \A i \in DOMAIN undo : undo[i].field \in Fields /\ undo[i].rev \in Nat
         /\ entry # None => entry.field \in Fields /\ entry.rev \in Nat
         /\ call # None => call.rev \in Nat
         /\ call # None /\ call.op = "set" => call.field \in Fields /\ call.v \in Values(call.field)
         /\ \A x \in Fields : hw[x].rev \in Nat /\ seen.hw[x].rev \in Nat
<1>1. \A i \in DOMAIN undo : undo[i].field \in Fields /\ undo[i].rev \in Nat
  BY EntryFields, TypeParts DEF Inv1
<1>2. entry # None => entry.field \in Fields /\ entry.rev \in Nat
  BY EntryFields, TypeParts DEF Inv1
<1>3. /\ call # None => call.rev \in Nat
      /\ call # None /\ call.op = "set" => call.field \in Fields /\ call.v \in Values(call.field)
  BY CallFields, TypeParts DEF Inv1, CallTyped
<1>4. \A x \in Fields : hw[x].rev \in Nat /\ seen.hw[x].rev \in Nat
  BY InventoryCell, TypeParts DEF Inv1
<1> QED BY <1>1, <1>2, <1>3, <1>4

\* The stack keeps its compensations, but for the newest.
UndoKept == \A i \in DOMAIN undo' : \E j \in DOMAIN undo : undo'[i] = undo[j]

LEMMA UndoSame == ASSUME undo' = undo PROVE UndoKept
BY DEF UndoKept

LEMMA UndoPopped == ASSUME TypeOK, undo # <<>>, undo' = Tail(undo) PROVE UndoKept
BY Popped, TypeParts DEF UndoKept

UndoOwned == \A i \in DOMAIN undo : Owned(undo[i].field, undo[i].rev)

LEMMA UndoAges ==
  ASSUME Inv1, TypeOK', OwnedInv, Aging,
         NEW u, NEW j \in DOMAIN undo, u = undo[j]
  PROVE  \/ u.field \in raced' \/ u.rev = 0
         \/ hw'[u.field].rev > u.rev
         \/ hw'[u.field].rev = u.rev /\ who'[u.field] = "redxe"
<1> DEFINE x == u.field
           r == u.rev
<1>1. x \in Fields /\ r \in Nat /\ Owned(x, r)
  BY OwnedFields DEF OwnedInv
<1> HIDE DEF x, r
<1>2. hw'[x].rev > r \/ (hw'[x].rev = r /\ who'[x] = "redxe") \/ x \in raced' \/ r = 0
  BY <1>1, OwnedAges DEF Inv1, Owned
<1> QED BY <1>2 DEF x, r

LEMMA UndoStaysOwned ==
  ASSUME Inv1, TypeOK', OwnedInv, Aging, UndoKept
  PROVE  UndoOwned'
<1> SUFFICES ASSUME NEW i \in DOMAIN undo'
             PROVE  \/ undo'[i].field \in raced' \/ undo'[i].rev = 0
                    \/ hw'[undo'[i].field].rev > undo'[i].rev
                    \/ hw'[undo'[i].field].rev = undo'[i].rev /\ who'[undo'[i].field] = "redxe"
  BY DEF UndoOwned, Owned
<1>1. PICK j \in DOMAIN undo : undo'[i] = undo[j]
  BY DEF UndoKept
<1> QED BY <1>1, UndoAges

\* What is out when its answer is used belongs to RedXe.
LEMMA OwnedSame ==
  ASSUME OwnedInv, UNCHANGED <<hw, who, call, answer, seen, raced, entry, undo>>,
         at' = at \/ at' \notin {"stage", "rollback"}
  PROVE  OwnedInv'
<1>1. UndoOwned'
  BY DEF OwnedInv, UndoOwned, Owned
<1>2. /\ call' # None /\ call'.stage = "changed" => who'[call'.field] = "redxe" \/ call'.field \in raced'
      /\ (at = "rollback" /\ call # None /\ call.stage = "checked" =>
            who[call.field] = "redxe" \/ call.field \in raced)'
      /\ (at = "stage" /\ answer = "ok" /\ entry # None => Owned(entry.field, seen.hw[entry.field].rev))'
      /\ (at = "rollback" /\ call # None => call.rev # 0 /\ Owned(call.field, call.rev))'
  BY DEF OwnedInv, Owned
<1> QED BY <1>1, <1>2 DEF OwnedInv, UndoOwned

LEMMA OwnedHelper ==
  ASSUME Inv1, Inv1', OwnedInv, HelperQuiet,
         Compare \/ Mutate \/ Refuse \/ ReadBack \/ ReadBackFails \/ Lose \/ Crash \/ World
  PROVE  OwnedInv'
<1> TypeOK /\ TypeOK' /\ ControlInv
  BY DEF Inv1
<1>1. Aging /\ UndoKept
  BY StepsAge, UndoSame DEF HelperQuiet
<1>2. UndoOwned'
  BY <1>1, UndoStaysOwned
<1>3. at' = at /\ entry' = entry
  BY DEF HelperQuiet
<1>4. call' # None /\ call'.stage = "changed" => who'[call'.field] = "redxe" \/ call'.field \in raced'
  <2>1. CASE Mutate
    BY <2>1, MutateStep
  <2>2. CASE Compare \/ Refuse \/ ReadBack \/ ReadBackFails \/ Lose \/ Crash
    <3>1. call' = None \/ call'.stage # "changed" \/ UNCHANGED <<call, who, raced>>
      BY <2>2, CompareStep, RefuseStep, ReadBackStep, ReadBackFailsStep, LoseStep, CrashStep
    <3> QED BY <3>1 DEF OwnedInv
  <2>3. CASE World
    <3>1. Disturbed
      BY <2>3, WorldStep
    <3>2. call # None /\ call.stage = "changed" => call.field \in Fields
      BY CallFields, TypeParts DEF CallTyped
    <3> QED BY <3>1, <3>2 DEF Disturbed, OwnedInv, InWork
  <2> QED BY <2>1, <2>2, <2>3
<1>4a. ASSUME at' = "rollback", call' # None, call'.stage = "checked"
       PROVE  who'[call'.field] = "redxe" \/ call'.field \in raced'
  <2>1. CASE Compare
    <3>1. /\ call # None /\ hw[call.field].rev = call.rev /\ call'.field = call.field
          /\ UNCHANGED <<who, raced>>
      BY <2>1, CompareStep
    <3>2. call.rev # 0 /\ Owned(call.field, call.rev) /\ call.rev \in Nat
      BY <1>3, <1>4a, <3>1, OwnedFields DEF OwnedInv
    <3>3. who[call.field] = "redxe" \/ call.field \in raced
      BY <3>1, <3>2 DEF Owned
    <3> QED BY <3>1, <3>3
  <2>2. CASE Mutate \/ Refuse \/ ReadBack \/ ReadBackFails \/ Lose \/ Crash
    <3>1. call' = None \/ call'.stage # "checked" \/ UNCHANGED <<call, who, raced>>
      BY <2>2, MutateStep, RefuseStep, ReadBackStep, ReadBackFailsStep, LoseStep, CrashStep
    <3> QED BY <1>3, <1>4a, <3>1 DEF OwnedInv
  <2>3. CASE World
    <3>1. Disturbed
      BY <2>3, WorldStep
    <3>2. call # None /\ call' = call /\ call.stage = "checked" /\ call.field \in Fields
      BY <1>4a, <3>1, CallFields, TypeParts DEF CallTyped, Disturbed
    <3>3. who[call.field] = "redxe" \/ call.field \in raced
      BY <1>3, <1>4a, <3>2 DEF OwnedInv
    <3> QED BY <3>1, <3>2, <3>3 DEF Disturbed, InWork
  <2> QED BY <2>1, <2>2, <2>3
<1>5. ASSUME at' = "stage", answer' = "ok", entry' # None
      PROVE  Owned(entry.field, seen.hw[entry.field].rev)'
  <2>1. entry.field \in Fields /\ seen.hw[entry.field].rev \in Nat /\ entry # None
    BY <1>3, <1>5, OwnedFields
  <2>2. CASE ReadBack
    <3>1. /\ call # None /\ seen'.hw = hw /\ call.stage # "refused" /\ CallTyped(call)
          /\ (call.op = "observe" \/ call.stage \in {"changed", "refused"})
          /\ UNCHANGED <<hw, who, raced>>
      BY <1>5, <2>2, ReadBackStep
    <3>2. call.op = "set" /\ call.field = entry.field
      BY <1>3, <1>5, <2>1, <3>1 DEF ControlInv, StageCall
    <3>3. call.stage = "changed"
      BY <3>1, <3>2, CallFields
    <3>4. who[entry.field] = "redxe" \/ entry.field \in raced
      BY <3>1, <3>2, <3>3 DEF OwnedInv
    <3>5. seen'.hw[entry'.field].rev = hw'[entry'.field].rev
      BY <1>3, <3>1
    <3> QED BY <1>3, <3>1, <3>4, <3>5 DEF Owned
  <2>3. CASE Compare \/ Mutate \/ Refuse \/ ReadBackFails \/ Lose \/ Crash \/ World
    <3>1. answer = "ok" /\ seen' = seen
      BY <1>5, <2>3, CompareStep, MutateStep, RefuseStep, ReadBackFailsStep, LoseStep, CrashStep, WorldStep DEF Disturbed
    <3>2. Owned(entry.field, seen.hw[entry.field].rev)
      BY <1>3, <1>5, <2>1, <3>1 DEF OwnedInv
    <3> DEFINE x == entry.field
               r == seen.hw[entry.field].rev
    <3>3. x \in Fields /\ r \in Nat /\ Owned(x, r)
      BY <2>1, <3>2
    <3> HIDE DEF x, r
    <3>4. hw'[x].rev > r \/ (hw'[x].rev = r /\ who'[x] = "redxe") \/ x \in raced' \/ r = 0
      BY <1>1, <3>3, OwnedAges DEF Owned
    <3> QED BY <1>3, <3>1, <3>4 DEF Owned, x, r
  <2> QED BY <2>2, <2>3
<1>6. ASSUME at' = "rollback", call' # None PROVE (call.rev # 0 /\ Owned(call.field, call.rev))'
  <2>1. call # None /\ call'.field = call.field /\ call'.rev = call.rev
    BY <1>6, CompareStep, MutateStep, RefuseStep, ReadBackStep, ReadBackFailsStep, LoseStep, CrashStep, WorldStep DEF Disturbed
  <2>2. call.rev # 0 /\ Owned(call.field, call.rev) /\ call.op = "set"
    BY <1>3, <1>6, <2>1 DEF OwnedInv, ControlInv
  <2> DEFINE x == call.field
             r == call.rev
  <2>3. x \in Fields /\ r \in Nat /\ Owned(x, r) /\ r # 0
    BY <2>1, <2>2, OwnedFields
  <2> HIDE DEF x, r
  <2>4. hw'[x].rev > r \/ (hw'[x].rev = r /\ who'[x] = "redxe") \/ x \in raced'
    BY <1>1, <2>3, OwnedAges DEF Owned
  <2> QED BY <2>1, <2>3, <2>4 DEF Owned, x, r
<1> QED BY <1>2, <1>4, <1>4a, <1>5, <1>6 DEF OwnedInv, UndoOwned

LEMMA OwnedTx ==
  ASSUME Inv1, Inv1', OwnedInv,
         Preflight \/ RunStage \/ StageAnswered \/ Compensate \/ Compensated
  PROVE  OwnedInv'
<1> TypeOK /\ TypeOK' /\ ControlInv
  BY DEF Inv1
<1>a. Aging /\ UNCHANGED <<hw, who, raced, seen>>
  <2>1. TxQuiet
    BY PreflightStep, RunStageStep, StageAnsweredStep, CompensateStep, CompensatedStep
  <2> QED BY <2>1, QuietAges DEF TxQuiet
<1>1. CASE Preflight \/ RunStage \/ Compensated
  <2>1. answer' = "none" /\ UNCHANGED undo /\ (at' = "rollback" => call' = None)
        /\ (call' # None => call'.stage = "sent")
    BY <1>1, PreflightStep, RunStageStep, CompensatedStep
    DEF RunStageSkips, RunStageAborts, RunStageSends, RunStageReads
  <2>2. UndoOwned'
    BY <1>a, <2>1, UndoSame, UndoStaysOwned
  <2> QED BY <2>1, <2>2 DEF OwnedInv, UndoOwned
<1>2. CASE StageAnswered
  <2>1. /\ at = "stage" /\ answer' = "none" /\ call' = None
        /\ StageApplied \/ StageMismatched \/ StageSucceeded \/ StageFailed
    BY <1>2, StageAnsweredStep
  <2>2. CASE StageSucceeded
    <3> DEFINE u == [entry EXCEPT !.rev = Revision(entry.field)]
    <3>1. undo' = <<u>> \o undo /\ entry # None /\ answer = "ok"
      BY <2>2 DEF StageSucceeded
    <3>2. EntryTyped(entry) /\ u \in Entries /\ u.field = entry.field /\ u.rev = Revision(entry.field)
      BY <3>1, PushedEntry, TypeParts
    <3>3. Owned(entry.field, seen.hw[entry.field].rev) /\ entry.field \in Fields
      BY <2>1, <3>1, <3>2, EntryFields DEF OwnedInv
    <3>4. u.rev = 0 \/ u.rev = seen.hw[entry.field].rev
      BY <3>2, <3>3, RevisionTyped
    <3> HIDE DEF u
    <3>5. undo' \in Seq(Entries) /\ undo'[1] = u
          /\ \A j \in DOMAIN undo' : j = 1 \/ (j - 1 \in DOMAIN undo /\ undo'[j] = undo[j - 1])
      BY <3>1, <3>2, Pushed, TypeParts
    <3>6. ASSUME NEW i \in DOMAIN undo'
          PROVE  \/ undo'[i].field \in raced' \/ undo'[i].rev = 0
                 \/ hw'[undo'[i].field].rev > undo'[i].rev
                 \/ hw'[undo'[i].field].rev = undo'[i].rev /\ who'[undo'[i].field] = "redxe"
      <4>1. CASE i = 1
        BY <1>a, <3>2, <3>3, <3>4, <3>5, <4>1 DEF Owned
      <4>2. CASE i # 1
        <5>1. i - 1 \in DOMAIN undo /\ undo'[i] = undo[i - 1]
          BY <3>5, <4>2
        <5> QED BY <1>a, <5>1, UndoAges
      <4> QED BY <4>1, <4>2
    <3>7. UndoOwned'
      BY <3>6 DEF UndoOwned, Owned
    <3> QED BY <2>1, <3>7 DEF OwnedInv, UndoOwned
  <2>3. CASE StageApplied \/ StageMismatched \/ StageFailed
    <3>1. undo' = undo
      BY <2>3 DEF StageApplied, StageMismatched, StageFailed
    <3>2. UndoOwned'
      BY <1>a, <3>1, UndoSame, UndoStaysOwned
    <3> QED BY <2>1, <3>2 DEF OwnedInv, UndoOwned
  <2> QED BY <2>1, <2>2, <2>3
<1>3. CASE Compensate
  <2>1. /\ at = "rollback" /\ answer' = "none"
        /\ CompensateEnds \/ CompensateSends \/ CompensateSkips
    BY <1>3, CompensateStep
  <2>2. UndoKept
    BY <2>1, UndoSame, UndoPopped DEF CompensateEnds, CompensateSends, CompensateSkips
  <2>3. UndoOwned'
    BY <1>a, <2>2, UndoStaysOwned
  <2>4. CASE CompensateSends
    <3>1. /\ undo # <<>> /\ call'.stage = "sent" /\ call'.field = undo[1].field
          /\ call'.rev = undo[1].rev /\ call'.rev # 0
      BY <2>4 DEF CompensateSends
    <3>2. 1 \in DOMAIN undo
      BY <3>1, Popped, TypeParts
    <3>3. Owned(undo[1].field, undo[1].rev)
      BY <3>2 DEF OwnedInv
    <3>4. Owned(call.field, call.rev)'
      BY <1>a, <3>1, <3>3 DEF Owned
    <3> QED BY <2>1, <2>3, <3>1, <3>4 DEF OwnedInv, UndoOwned
  <2>5. CASE CompensateEnds \/ CompensateSkips
    <3>1. call' = None
      BY <2>5 DEF CompensateEnds, CompensateSkips
    <3> QED BY <2>1, <2>3, <3>1 DEF OwnedInv, UndoOwned
  <2> QED BY <2>1, <2>4, <2>5
<1> QED BY <1>1, <1>2, <1>3

LEMMA OwnedNext == ASSUME Inv1, Inv1', OwnedInv, [Next]_vars PROVE OwnedInv'
<1>1. CASE Unmoved
  <2>1. at' = at \/ at' \notin {"stage", "rollback"}
    BY <1>1 DEF Unmoved, Queues
  <2> QED BY <1>1, <2>1, OwnedSame DEF Unmoved
<1>2. CASE Outside
  <2>1. undo' = <<>>
    BY <1>2 DEF Outside, Inv1, ControlInv
  <2>2. UndoOwned'
    BY <2>1 DEF UndoOwned
  <2> QED BY <1>2, <2>2 DEF Outside, OwnedInv, UndoOwned
<1> QED BY <1>1, <1>2, OwnedTx, OwnedHelper, StepKinds

LEMMA OwnedInit == ASSUME Init PROVE OwnedInv
BY DEF Init, HelperInit, OwnedInv

LEMMA Inv1Always == Spec => []Inv1
<1>1. Init => Inv1
  BY Inv1Init
<1>2. Inv1 /\ [Next]_vars => Inv1'
  BY Inv1Next
<1> QED BY <1>1, <1>2, PTL DEF Spec

LEMMA OwnedAlways == Spec => [](Inv1 /\ OwnedInv)
<1>1. Init => Inv1 /\ OwnedInv
  BY Inv1Init, OwnedInit
<1>2. Inv1 /\ OwnedInv /\ [Next]_vars => (Inv1 /\ OwnedInv)'
  BY Inv1Next, OwnedNext
<1> QED BY <1>1, <1>2, PTL DEF Spec

-----------------------------------------------------------------------------
(* What the reply buffer still says of the devices                          *)

InForce(x, v) == hw[x].v = v \/ who[x] = "other"

InTouch == at = "stage" \/ (at = "first" /\ answer = "ok")

\* In a stage nothing changed a device since the last reply but the command
\* that is out, and others.
SeenOld == \A x \in Fields : /\ seen.hw[x].rev <= hw[x].rev
                             /\ seen.hw[x].rev = hw[x].rev => seen.hw[x].v = hw[x].v
SeenNow == /\ \A x \in Fields \ {Camera} : InForce(x, seen.hw[x].v) \/ Unread(x)
           /\ hw[Camera].v.source = seen.hw[Camera].v.source \/ Unread(Camera)

SeenInv == InTouch => SeenOld /\ (answer \in {"none", "ok"} => SeenNow)

LEMMA SeenSame ==
  ASSUME SeenInv, InTouch, UNCHANGED <<hw, who, seen>>, answer \in {"none", "ok"},
         call = None \/ call.stage # "changed"
  PROVE  SeenInv'
<1>1. SeenOld' /\ SeenNow'
  BY DEF SeenInv, SeenOld, SeenNow, Unread, InForce
<1> QED BY <1>1 DEF SeenInv

LEMMA SeenHelper ==
  ASSUME Inv1, Inv1', SeenInv, HelperQuiet,
         Compare \/ Mutate \/ Refuse \/ ReadBack \/ ReadBackFails \/ Lose \/ Crash \/ World
  PROVE  SeenInv'
<1> TypeOK /\ TypeOK' /\ ControlInv
  BY DEF Inv1
<1>1. at' = at
  BY DEF HelperQuiet
<1>2. \A x \in Fields : hw[x].rev \in Nat /\ seen.hw[x].rev \in Nat /\ hw'[x].rev \in Nat
  <2>1. Inventory(hw')
    BY DEF TypeOK, HelperTypes, Inventory
  <2> QED BY <2>1, OwnedFields, InventoryCell
<1>3. Camera \in Fields
  BY FieldMembers
<1>4. CASE Mutate
  <2>1. /\ call # None /\ call.stage = "checked" /\ call.op = "set" /\ call.field \in Fields
        /\ \A y \in Fields \ {call.field} : hw'[y] = hw[y] /\ who'[y] = who[y]
        /\ hw'[call.field].v = call.v
        /\ hw[call.field].v = call.v => hw'[call.field].rev = hw[call.field].rev
        /\ hw[call.field].v # call.v => hw'[call.field].rev = hw[call.field].rev + 1
        /\ call' # None /\ call'.stage = "changed" /\ call'.field = call.field
        /\ UNCHANGED <<answer, seen>>
    BY <1>4, MutateStep
  <2>2. InTouch' => at = "stage" /\ InTouch /\ answer = "none"
    BY <1>1, <2>1 DEF InTouch, ControlInv
  <2>3. InTouch => SeenOld'
    <3> SUFFICES ASSUME InTouch, NEW x \in Fields
                 PROVE  /\ seen'.hw[x].rev <= hw'[x].rev
                        /\ seen'.hw[x].rev = hw'[x].rev => seen'.hw[x].v = hw'[x].v
      BY DEF SeenOld
    <3>1. /\ seen.hw[x].rev <= hw[x].rev
          /\ seen.hw[x].rev = hw[x].rev => seen.hw[x].v = hw[x].v
      BY DEF SeenInv, SeenOld
    <3> QED BY <1>2, <2>1, <3>1
  <2>4. InTouch /\ answer = "none" => SeenNow'
    BY <1>3, <2>1 DEF SeenInv, SeenNow, Unread, InForce
  <2> QED BY <2>1, <2>2, <2>3, <2>4 DEF SeenInv
<1>5. CASE Compare \/ Refuse
  <2>1. /\ call # None /\ call.stage # "changed"
        /\ call' # None /\ call'.stage # "changed"
        /\ UNCHANGED <<hw, who, answer, seen>>
    BY <1>5, CompareStep, RefuseStep
  <2>2. InTouch' => InTouch /\ answer = "none"
    BY <1>1, <2>1 DEF InTouch, ControlInv
  <2> QED BY <2>1, <2>2, SeenSame DEF SeenInv
<1>6. CASE ReadBack
  <2>1. seen'.hw = hw /\ UNCHANGED <<hw, who>>
    BY <1>6, ReadBackStep
  <2>2. SeenOld'
    BY <1>2, <2>1 DEF SeenOld
  <2>3. SeenNow'
    BY <2>1 DEF SeenNow, InForce
  <2> QED BY <2>2, <2>3 DEF SeenInv
<1>7. CASE ReadBackFails
  <2>1. seen'.hw = seen.hw /\ UNCHANGED <<hw, who>> /\ answer' = "failed"
    BY <1>7, ReadBackFailsStep
  <2>2. InTouch' => InTouch
    BY <1>1, <2>1 DEF InTouch
  <2>3. InTouch => SeenOld'
    BY <2>1 DEF SeenInv, SeenOld
  <2> QED BY <2>1, <2>2, <2>3 DEF SeenInv
<1>8. CASE Lose \/ Crash
  <2>1. Faded /\ seen' = seen /\ who' = who
    BY <1>8, LoseStep, CrashStep
  <2>2. InTouch' => InTouch
    <3>1. answer' = answer \/ answer' = "lost"
      BY <1>8, LoseStep, CrashStep
    <3> QED BY <1>1, <3>1 DEF InTouch
  <2>3. InTouch => SeenOld'
    <3> SUFFICES ASSUME InTouch, NEW x \in Fields
                 PROVE  /\ seen'.hw[x].rev <= hw'[x].rev
                        /\ seen'.hw[x].rev = hw'[x].rev => seen'.hw[x].v = hw'[x].v
      BY DEF SeenOld
    <3>1. /\ seen.hw[x].rev <= hw[x].rev
          /\ seen.hw[x].rev = hw[x].rev => seen.hw[x].v = hw[x].v
      BY DEF SeenInv, SeenOld
    <3>2. hw'[x] = hw[x] \/ hw'[x].rev > hw[x].rev
      BY <1>3, <2>1 DEF Faded
    <3> QED BY <1>2, <2>1, <3>1, <3>2
  <2>4. answer' \in {"none", "ok"} => Crash /\ answer' = answer /\ call = None /\ call' = None
    BY <1>8, LoseStep, CrashStep
  <2>5. InTouch /\ answer' \in {"none", "ok"} => SeenNow'
    BY <2>1, <2>4 DEF SeenInv, SeenNow, Unread, InForce, Faded
  <2> QED BY <2>2, <2>3, <2>5 DEF SeenInv
<1>9. CASE World
  <2>1. Disturbed
    BY <1>9, WorldStep
  <2>2. InTouch' => InTouch
    BY <1>1, <2>1 DEF InTouch, Disturbed
  <2>3. InTouch => SeenOld'
    <3> SUFFICES ASSUME InTouch, NEW x \in Fields
                 PROVE  /\ seen'.hw[x].rev <= hw'[x].rev
                        /\ seen'.hw[x].rev = hw'[x].rev => seen'.hw[x].v = hw'[x].v
      BY DEF SeenOld
    <3>1. /\ seen.hw[x].rev <= hw[x].rev
          /\ seen.hw[x].rev = hw[x].rev => seen.hw[x].v = hw[x].v
      BY DEF SeenInv, SeenOld
    <3>2. seen' = seen /\ (hw'[x] = hw[x] \/ hw'[x].rev > hw[x].rev)
      BY <2>1 DEF Disturbed
    <3> QED BY <1>2, <3>1, <3>2
  <2>4. InTouch /\ answer' \in {"none", "ok"} => SeenNow'
    BY <1>3, <2>1 DEF SeenInv, SeenNow, Unread, InForce, Disturbed
  <2> QED BY <2>2, <2>3, <2>4 DEF SeenInv
<1> QED BY <1>4, <1>5, <1>6, <1>7, <1>8, <1>9

LEMMA SeenNext == ASSUME Inv1, Inv1', SeenInv, [Next]_vars PROVE SeenInv'
<1> TypeOK /\ ControlInv
  BY DEF Inv1
<1>1. CASE Unmoved
  <2>1. /\ SeenOld => SeenOld'
        /\ SeenNow => SeenNow'
        /\ InTouch' => InTouch
    BY <1>1 DEF Unmoved, Queues, SeenOld, SeenNow, Unread, InForce, InTouch
  <2> QED BY <1>1, <2>1 DEF SeenInv, Unmoved
<1>2. CASE Outside
  BY <1>2 DEF Outside, SeenInv, InTouch
<1>3. CASE Preflight \/ RunStage \/ StageAnswered
  <2>1. /\ UNCHANGED <<hw, who, seen>> /\ call = None
    BY <1>3, PreflightStep, RunStageStep, StageAnsweredStep DEF TxQuiet
  <2>2. InTouch' => InTouch /\ answer \in {"none", "ok"}
    BY <1>3, PreflightStep, RunStageStep, StageAnsweredStep
    DEF InTouch, RunStageSkips, RunStageAborts, RunStageSends, RunStageReads,
        StageApplied, StageMismatched, StageSucceeded, StageFailed
  <2> QED BY <2>1, <2>2, SeenSame DEF SeenInv
<1>4. CASE Compensate \/ Compensated
  <2>1. at' \in {"rollback", "done"}
    BY <1>4, CompensateStep, CompensatedStep DEF CompensateEnds, CompensateSends, CompensateSkips
  <2> QED BY <2>1 DEF SeenInv, InTouch
<1> QED BY <1>1, <1>2, <1>3, <1>4, SeenHelper, StepKinds

-----------------------------------------------------------------------------
(* What an applied profile has set                                          *)

\* The field keeps its value and its writer, or is another's now.
Steady(x) == (hw'[x].v = hw[x].v /\ who'[x] = who[x]) \/ who'[x] = "other"

LEMMA HelperSteady ==
  ASSUME Inv1, Compare \/ Mutate \/ Refuse \/ ReadBack \/ ReadBackFails \/ Lose \/ Crash \/ World,
         NEW x \in Fields \ {Camera}, Mutate => x # call.field
  PROVE  Steady(x)
<1> TypeOK
  BY DEF Inv1
<1>1. CASE Mutate
  <2>1. /\ x # call.field
        /\ \A y \in Fields \ {call.field} : hw'[y] = hw[y] /\ who'[y] = who[y]
    BY <1>1, MutateStep
  <2> QED BY <2>1 DEF Steady
<1>2. CASE Compare \/ Refuse \/ ReadBack \/ ReadBackFails
  <2>1. UNCHANGED <<hw, who>>
    BY <1>2, CompareStep, RefuseStep, ReadBackStep, ReadBackFailsStep
  <2> QED BY <2>1 DEF Steady
<1>3. CASE Lose \/ Crash
  <2>1. Faded /\ who' = who
    BY <1>3, LoseStep, CrashStep
  <2> QED BY <2>1 DEF Faded, Steady
<1>4. CASE World
  BY <1>4, WorldStep DEF Disturbed, Steady
<1> QED BY <1>1, <1>2, <1>3, <1>4

LEMMA SteadyInForce ==
  ASSUME NEW x, NEW v, InForce(x, v), Steady(x)
  PROVE  hw'[x].v = v \/ who'[x] = "other"
BY DEF InForce, Steady

\* The stages that prepare an endpoint for the routes: its mute and its level.
Prepares(s) == s.op \in {"mute", "level"} /\ Needed(s)

Prepared ==
  \A i \in DOMAIN Plan : i < step /\ Prepares(Plan[i]) => InForce(Target(Plan[i]), Wanted(Plan[i]))

AppliedInv ==
  /\ call # None /\ call.stage = "changed" => InForce(call.field, call.v)
  /\ at = "stage" /\ entry # None /\ answer = "ok" /\ Prepares(Now) =>
       InForce(entry.field, Wanted(Now))
  /\ at = "stage" => Prepared
  /\ AppliedMeansInForce

\* What the stage of a mute or a level is about.
LEMMA PreparingStage ==
  ASSUME profile \in Profiles, NEW i \in DOMAIN Plan, Plan[i].op \in {"mute", "level"}
  PROVE  /\ Plan[i].op = "mute" => Target(Plan[i]) = Mute(Plan[i].flow, profile.endpoint) /\ Wanted(Plan[i]) = TRUE
         /\ Plan[i].op = "level" =>
              Target(Plan[i]) = Level(Plan[i].flow, profile.endpoint) /\ Wanted(Plan[i]) = profile.level
         /\ Target(Plan[i]) \in Fields \ {Camera}
         /\ i # Len(Plan) /\ i \in Nat \ {0} /\ Plan[i].flow \in FlowSet
<1> DEFINE s == Plan[i]
<1>1. s.flow \in FlowSet /\ i # Len(Plan) /\ s.op \in {"mute", "level"}
  BY PlanStages
<1>2. i \in Nat \ {0}
  BY PlanParts
<1> SUFFICES /\ s.op = "mute" => Target(s) = Mute(s.flow, profile.endpoint) /\ Wanted(s) = TRUE
             /\ s.op = "level" => Target(s) = Level(s.flow, profile.endpoint) /\ Wanted(s) = profile.level
             /\ Target(s) \in Fields \ {Camera}
  BY <1>1, <1>2
<1> HIDE DEF s
<1>3. s.op = "mute" => Target(s) = Mute(s.flow, profile.endpoint)
  BY DEF Target
<1>4. s.op = "mute" => Wanted(s) = TRUE
  BY DEF Wanted
<1>5. s.op = "level" => Target(s) = Level(s.flow, profile.endpoint) /\ Wanted(s) = profile.level
  BY DEF Target, Wanted
<1>6. /\ Mute(s.flow, profile.endpoint) \in Fields \ {Camera}
      /\ Level(s.flow, profile.endpoint) \in Fields \ {Camera}
  BY <1>1, ProfileTyped, FieldMembers, MuteName, LevelName, CameraName
<1> QED BY <1>1, <1>3, <1>4, <1>5, <1>6

\* While a profile is out, a preparing stage stays what it is.
LEMMA PreparesSame ==
  ASSUME profile' = profile, leaves' = leaves, NEW s
  PROVE  /\ Prepares(s)' = Prepares(s)
         /\ Prepares(s) => Wanted(s)' = Wanted(s)
<1>1. Needed(s)' = Needed(s)
  BY DEF Needed
<1>2. s.op = "mute" => Wanted(s)' = Wanted(s)
  BY DEF Wanted
<1>3. s.op = "level" => Wanted(s)' = Wanted(s)
  BY DEF Wanted
<1> QED BY <1>1, <1>2, <1>3 DEF Prepares

LEMMA TargetSame == ASSUME profile' = profile, NEW s PROVE Target(s)' = Target(s)
BY DEF Target

\* The mutes and levels of the stages that are past.
LEMMA PreparedStays ==
  ASSUME Inv1, UNCHANGED <<profile, leaves, step>>, Prepared,
         \A i \in DOMAIN Plan : i < step /\ Prepares(Plan[i]) => Steady(Target(Plan[i]))
  PROVE  Prepared'
<1>1. Plan' = Plan
  BY PlanSame
<1>2. SUFFICES ASSUME NEW i \in DOMAIN Plan, i < step, Prepares(Plan[i])
               PROVE  hw'[Target(Plan[i])].v = Wanted(Plan[i]) \/ who'[Target(Plan[i])] = "other"
  <2>1. \A s : Target(s)' = Target(s) /\ Prepares(s)' = Prepares(s) /\ (Prepares(s) => Wanted(s)' = Wanted(s))
    BY TargetSame, PreparesSame
  <2> QED BY <1>1, <2>1 DEF Prepared, InForce
<1>3. InForce(Target(Plan[i]), Wanted(Plan[i])) /\ Steady(Target(Plan[i]))
  BY <1>2 DEF Prepared
<1> QED BY <1>3, SteadyInForce

\* A profile in force stays so, but for what others change.
LEMMA AppliedStays ==
  ASSUME AppliedMeansInForce, UNCHANGED <<profile, at, outcome>>, profile \in Profiles,
         \A x \in Fields \ {Camera} : Steady(x),
         helper' = "up" => helper = "up" /\ hw'[Camera].v.source = hw[Camera].v.source
  PROVE  AppliedMeansInForce'
<1> SUFFICES ASSUME at = "done", outcome.applied
             PROVE  /\ \A f \in FlowSet :
                         /\ \A r \in RoleSet : r >= profile.first =>
                              hw'[Route(f, r)].v = profile.endpoint \/ who'[Route(f, r)] = "other"
                         /\ profile.levels =>
                              \/ hw'[Level(f, profile.endpoint)].v = profile.level
                              \/ who'[Level(f, profile.endpoint)] = "other"
                    /\ helper' = "up" => hw'[Camera].v.source = profile.camera
  BY DEF AppliedMeansInForce
<1>1. ASSUME NEW f \in FlowSet, NEW r \in RoleSet, r >= profile.first
      PROVE  hw'[Route(f, r)].v = profile.endpoint \/ who'[Route(f, r)] = "other"
  <2>1. InForce(Route(f, r), profile.endpoint)
    BY <1>1 DEF AppliedMeansInForce, InForce
  <2>2. Route(f, r) \in Fields \ {Camera}
    BY FieldMembers, RouteName, CameraName
  <2> QED BY <2>1, <2>2, SteadyInForce
<1>2. ASSUME NEW f \in FlowSet, profile.levels
      PROVE  \/ hw'[Level(f, profile.endpoint)].v = profile.level
             \/ who'[Level(f, profile.endpoint)] = "other"
  <2>1. InForce(Level(f, profile.endpoint), profile.level)
    BY <1>2 DEF AppliedMeansInForce, InForce
  <2>2. Level(f, profile.endpoint) \in Fields \ {Camera}
    BY ProfileTyped, FieldMembers, LevelName, CameraName
  <2> QED BY <2>1, <2>2, SteadyInForce
<1>3. helper' = "up" => hw'[Camera].v.source = profile.camera
  BY DEF AppliedMeansInForce
<1> QED BY <1>1, <1>2, <1>3

\* What the helper carried out is in force.
LEMMA ChangedInForce ==
  ASSUME Inv1, call # None /\ call.stage = "changed" => InForce(call.field, call.v),
         Compare \/ Mutate \/ Refuse \/ ReadBack \/ ReadBackFails \/ Lose \/ Crash \/ World
  PROVE  (call # None /\ call.stage = "changed" => InForce(call.field, call.v))'
<1> TypeOK
  BY DEF Inv1
<1>1. CASE Mutate
  BY <1>1, MutateStep DEF InForce
<1>2. CASE Compare \/ Refuse \/ ReadBack \/ ReadBackFails \/ Lose \/ Crash
  <2>1. call' = None \/ call'.stage # "changed"
    BY <1>2, CompareStep, RefuseStep, ReadBackStep, ReadBackFailsStep, LoseStep, CrashStep
  <2> QED BY <2>1
<1>3. CASE World
  <2>1. Disturbed /\ (call # None /\ call.stage = "changed" => call.field \in Fields)
    BY <1>3, WorldStep, CallFields, TypeParts DEF CallTyped
  <2>2. call' = call
    BY <2>1 DEF Disturbed
  <2>3. ASSUME call # None, call.stage = "changed"
        PROVE  hw'[call.field].v = call.v \/ who'[call.field] = "other"
    <3>1. InForce(call.field, call.v) /\ call.field \in Fields
      BY <2>1, <2>3
    <3> QED BY <2>1, <3>1 DEF Disturbed, InForce
  <2> QED BY <2>2, <2>3 DEF InForce
<1> QED BY <1>1, <1>2, <1>3

LEMMA AppliedHelper ==
  ASSUME Inv1, Inv1', AppliedInv, HelperQuiet,
         Compare \/ Mutate \/ Refuse \/ ReadBack \/ ReadBackFails \/ Lose \/ Crash \/ World
  PROVE  AppliedInv'
<1> TypeOK /\ TypeOK' /\ ControlInv
  BY DEF Inv1
<1>1. (call # None /\ call.stage = "changed" => InForce(call.field, call.v))'
  BY ChangedInForce DEF AppliedInv
<1>2. /\ at' = at /\ entry' = entry /\ profile' = profile /\ step' = step /\ outcome' = outcome
      /\ leaves' = leaves
  BY DEF HelperQuiet
<1>3. at = "stage" /\ Mutate => call.field = Target(Now) /\ Now.op # "verify"
  BY MutateStep DEF ControlInv, StageCall
<1>4. ASSUME at = "stage" PROVE Prepared'
  <2>1. profile \in Profiles /\ step \in DOMAIN Plan
    BY <1>4, StageFacts
  <2>2. ASSUME NEW i \in DOMAIN Plan, i < step, Prepares(Plan[i])
        PROVE  Steady(Target(Plan[i]))
    <3>1. Target(Plan[i]) \in Fields \ {Camera} /\ i # Len(Plan)
      BY <2>1, <2>2, PreparingStage DEF Prepares
    <3>2. ASSUME Mutate PROVE Target(Plan[i]) # call.field
      <4>1. step # Len(Plan) /\ call.field = Target(Plan[step])
        BY <1>3, <1>4, <3>2, StageFacts DEF Now
      <4>2. i \in Nat /\ step \in Nat
        BY <2>1, PlanParts
      <4>3. i # step
        BY <2>2, <4>2
      <4> QED BY <2>1, <3>1, <4>1, <4>3, TargetsDiffer
    <3> QED BY <3>1, <3>2, HelperSteady
  <2>3. Prepared
    BY <1>4 DEF AppliedInv
  <2> QED BY <1>2, <2>2, <2>3, PreparedStays
<1>5. ASSUME at = "stage", entry # None, answer' = "ok", Prepares(Now)
      PROVE  hw'[entry.field].v = Wanted(Now) \/ who'[entry.field] = "other"
  <2>1. profile \in Profiles /\ step \in DOMAIN Plan
    BY <1>5, StageFacts
  <2>2. Target(Now) \in Fields \ {Camera}
    BY <1>5, <2>1, PreparingStage DEF Now, Prepares
  <2>3. CASE ReadBack
    <3>1. /\ call # None /\ call.stage # "refused" /\ CallTyped(call)
          /\ (call.op = "observe" \/ call.stage \in {"changed", "refused"}) /\ UNCHANGED <<hw, who>>
      BY <1>5, <2>3, ReadBackStep
    <3>2. call.op = "set" /\ call.field = entry.field /\ call.v = Wanted(Now)
      BY <1>5, <2>2, <3>1 DEF ControlInv, StageCall
    <3>3. call.stage = "changed"
      BY <3>1, <3>2, CallFields
    <3>4. InForce(call.field, call.v)
      BY <3>1, <3>3 DEF AppliedInv
    <3> QED BY <3>1, <3>2, <3>4 DEF InForce
  <2>4. CASE Compare \/ Mutate \/ Refuse \/ ReadBackFails \/ Lose \/ Crash \/ World
    <3>1. answer = "ok"
      BY <1>5, <2>4, CompareStep, MutateStep, RefuseStep, ReadBackFailsStep, LoseStep, CrashStep, WorldStep DEF Disturbed
    <3>2. call = None
      BY <3>1 DEF ControlInv
    <3>3. entry.field = Target(Now)
      BY <1>5, <3>1 DEF ControlInv, StageCall
    <3>4. InForce(entry.field, Wanted(Now))
      BY <1>5, <3>1 DEF AppliedInv
    <3>5. ~Mutate
      BY <3>2, MutateStep
    <3>6. Steady(entry.field)
      BY <2>2, <2>4, <3>3, <3>5, HelperSteady
    <3> QED BY <3>4, <3>6, SteadyInForce
  <2> QED BY <2>3, <2>4
<1>6. AppliedMeansInForce'
  <2>1. CASE at = "done"
    <3>1. call = None
      BY <2>1 DEF ControlInv
    <3>2. Crash \/ World
      BY <3>1, CompareStep, MutateStep, RefuseStep, ReadBackStep, ReadBackFailsStep, LoseStep
    <3>3. \A x \in Fields \ {Camera} : Steady(x)
      BY <3>1, MutateStep, HelperSteady
    <3>4. helper' = "up" => helper = "up" /\ hw'[Camera].v.source = hw[Camera].v.source
      <4>1. CASE Crash
        BY <4>1 DEF Crash, Ended
      <4>2. CASE World
        BY <4>2, WorldStep, FieldMembers DEF Disturbed
      <4> QED BY <3>2, <4>1, <4>2
    <3>5. profile \in Profiles /\ AppliedMeansInForce
      BY TypeParts DEF AppliedInv
    <3> QED BY <1>2, <3>3, <3>4, <3>5, AppliedStays
  <2>2. CASE at # "done"
    BY <1>2, <2>2 DEF AppliedMeansInForce
  <2> QED BY <2>1, <2>2
<1>7. Now' = Now /\ Prepares(Now)' = Prepares(Now) /\ (Prepares(Now) => Wanted(Now)' = Wanted(Now))
  <2>1. Now' = Now
    BY <1>2, NowSame
  <2>2. \A s : Prepares(s)' = Prepares(s) /\ (Prepares(s) => Wanted(s)' = Wanted(s))
    BY <1>2, PreparesSame
  <2> QED BY <2>1, <2>2
<1> QED BY <1>1, <1>2, <1>4, <1>5, <1>6, <1>7 DEF AppliedInv, InForce

\* A stage that is past, with what it prepares in force, adds to those before it.
LEMMA PreparedGrows ==
  ASSUME Inv1, at = "stage", Prepared, UNCHANGED <<profile, leaves, hw, who>>, step' = step + 1,
         Prepares(Now) => InForce(Target(Now), Wanted(Now))
  PROVE  Prepared'
<1>1. /\ Plan' = Plan
      /\ \A s : Target(s)' = Target(s) /\ Prepares(s)' = Prepares(s) /\ (Prepares(s) => Wanted(s)' = Wanted(s))
  BY PlanSame, TargetSame, PreparesSame
<1>2. SUFFICES ASSUME NEW i \in DOMAIN Plan, i < step + 1, Prepares(Plan[i])
               PROVE  hw[Target(Plan[i])].v = Wanted(Plan[i]) \/ who[Target(Plan[i])] = "other"
  BY <1>1 DEF Prepared, InForce
<1>3. step \in Nat /\ i \in Nat
  BY TypeParts, PlanParts DEF Inv1
<1>4. CASE i = step
  BY <1>2, <1>4 DEF Now, InForce
<1>5. CASE i # step
  <2>1. i < step
    BY <1>2, <1>3, <1>5
  <2> QED BY <1>2, <2>1 DEF Prepared, InForce
<1> QED BY <1>4, <1>5

LEMMA AppliedRunStage == ASSUME Inv1, Inv1', SeenInv, AppliedInv, RunStage PROVE AppliedInv'
<1> TypeOK /\ ControlInv
  BY DEF Inv1
<1>1. /\ at = "stage" /\ call = None /\ answer = "none" /\ answer' = "none"
      /\ TxQuiet /\ leaves' = leaves
      /\ RunStageSkips \/ RunStageAborts \/ RunStageSends \/ RunStageReads
  BY RunStageStep
<1>2. /\ call' # None => call'.stage = "sent"
      /\ at' \in {"stage", "rollback"}
  BY <1>1 DEF RunStageSkips, RunStageAborts, RunStageSends, RunStageReads
<1>3. UNCHANGED <<hw, who, profile, leaves>> /\ Prepared
  BY <1>1 DEF TxQuiet, AppliedInv
<1>4. CASE RunStageSkips
  <2>1. Prepares(Now) => InForce(Target(Now), Wanted(Now))
    <3>1. SUFFICES ASSUME Prepares(Now) PROVE InForce(Target(Now), Wanted(Now))
      OBVIOUS
    <3>2. profile \in Profiles /\ step \in DOMAIN Plan
      BY <1>1, StageFacts
    <3>3. Target(Now) \in Fields \ {Camera}
      BY <3>1, <3>2, PreparingStage DEF Now, Prepares
    <3>4. Already(Now)
      BY <1>4, <3>1 DEF RunStageSkips, Prepares
    <3>5. seen.hw[Target(Now)].v = Wanted(Now)
      BY <3>4 DEF Already
    <3>6. InForce(Target(Now), seen.hw[Target(Now)].v)
      BY <1>1, <3>3 DEF SeenInv, InTouch, SeenNow, Unread
    <3> QED BY <3>5, <3>6
  <2>2. Prepared'
    BY <1>1, <1>3, <1>4, <2>1, PreparedGrows DEF RunStageSkips
  <2> QED BY <1>1, <1>2, <2>2 DEF AppliedInv, AppliedMeansInForce
<1>5. CASE RunStageAborts
  BY <1>1, <1>2, <1>5 DEF AppliedInv, AppliedMeansInForce, RunStageAborts
<1>6. CASE RunStageSends \/ RunStageReads
  <2>1. step' = step
    BY <1>6 DEF RunStageSends, RunStageReads
  <2>2. Prepared'
    <3>1. \A x : Steady(x)
      BY <1>3 DEF Steady
    <3> QED BY <1>3, <2>1, <3>1, PreparedStays
  <2> QED BY <1>1, <1>2, <1>6, <2>2 DEF AppliedInv, AppliedMeansInForce, RunStageSends, RunStageReads
<1> QED BY <1>1, <1>4, <1>5, <1>6

\* The reading back at the end is what makes a profile applied.
LEMMA AppliedByReading ==
  ASSUME Inv1, SeenInv, AppliedInv, at = "stage", answer = "ok", call = None, Now.op = "verify", Matches(seen)
  PROVE  /\ \A f \in FlowSet :
              /\ \A r \in RoleSet : r >= profile.first => InForce(Route(f, r), profile.endpoint)
              /\ profile.levels => InForce(Level(f, profile.endpoint), profile.level)
         /\ hw[Camera].v.source = profile.camera
<1> TypeOK /\ ControlInv
  BY DEF Inv1
<1>1. SeenNow
  BY DEF SeenInv, InTouch
<1>2. ASSUME NEW f \in FlowSet, NEW r \in RoleSet, r >= profile.first
      PROVE  InForce(Route(f, r), profile.endpoint)
  <2>1. seen.hw[Route(f, r)].v = profile.endpoint
    BY <1>2 DEF Matches
  <2>2. Route(f, r) \in Fields \ {Camera}
    BY FieldMembers, RouteName, CameraName
  <2> QED BY <1>1, <2>1, <2>2 DEF SeenNow, Unread
<1>3. ASSUME NEW f \in FlowSet, profile.levels PROVE InForce(Level(f, profile.endpoint), profile.level)
  <2>1. profile \in Profiles /\ step = Len(Plan) /\ Len(Plan) \in Nat
    BY StageFacts, PlanParts
  <2>2. PICK i \in DOMAIN Plan : Plan[i].op = "level" /\ Plan[i].flow = f
    BY <2>1, PlanMutes
  <2>3. Target(Plan[i]) = Level(f, profile.endpoint) /\ Wanted(Plan[i]) = profile.level /\ i # Len(Plan)
    BY <2>1, <2>2, PreparingStage
  <2>4. i < step
    BY <2>1, <2>3, PlanParts
  <2>5. Prepared /\ Prepares(Plan[i])
    BY <1>3, <2>2 DEF AppliedInv, Prepares, Needed
  <2>6. InForce(Target(Plan[i]), profile.level)
    BY <2>3, <2>4, <2>5 DEF Prepared
  <2> QED BY <2>3, <2>6
<1>4. hw[Camera].v.source = profile.camera
  BY <1>1 DEF SeenNow, Unread, Matches
<1> QED BY <1>2, <1>3, <1>4

LEMMA AppliedStageAnswered == ASSUME Inv1, Inv1', SeenInv, AppliedInv, StageAnswered PROVE AppliedInv'
<1> TypeOK /\ ControlInv
  BY DEF Inv1
<1>1. /\ at = "stage" /\ answer # "none" /\ answer' = "none" /\ call = None /\ call' = None
      /\ entry' = None /\ TxQuiet /\ leaves' = leaves
      /\ StageApplied \/ StageMismatched \/ StageSucceeded \/ StageFailed
  BY StageAnsweredStep
<1>2. UNCHANGED <<hw, who, profile, leaves, helper>> /\ Prepared
  BY <1>1 DEF TxQuiet, AppliedInv
<1>3. CASE StageApplied
  <2>1. at' = "done" /\ Now.op = "verify" /\ answer = "ok" /\ Matches(seen)
    BY <1>3 DEF StageApplied
  <2>2. /\ \A f \in FlowSet :
              /\ \A r \in RoleSet : r >= profile.first => InForce(Route(f, r), profile.endpoint)
              /\ profile.levels => InForce(Level(f, profile.endpoint), profile.level)
        /\ hw[Camera].v.source = profile.camera
    BY <1>1, <2>1, AppliedByReading
  <2>3. AppliedMeansInForce'
    BY <1>2, <2>2 DEF AppliedMeansInForce, InForce
  <2> QED BY <1>1, <2>1, <2>3 DEF AppliedInv
<1>4. CASE StageMismatched \/ StageFailed
  <2>1. at' = "rollback"
    BY <1>4 DEF StageMismatched, StageFailed
  <2> QED BY <1>1, <2>1 DEF AppliedInv, AppliedMeansInForce
<1>5. CASE StageSucceeded
  <2>1. at' = "stage" /\ step' = step + 1 /\ answer = "ok" /\ entry # None
    BY <1>1, <1>5 DEF StageSucceeded
  <2>2. entry.field = Target(Now)
    BY <1>1, <2>1 DEF ControlInv, StageCall
  <2>3. Prepares(Now) => InForce(Target(Now), Wanted(Now))
    BY <1>1, <2>1, <2>2 DEF AppliedInv
  <2>4. Prepared'
    BY <1>1, <1>2, <2>1, <2>3, PreparedGrows
  <2> QED BY <1>1, <2>1, <2>4 DEF AppliedInv, AppliedMeansInForce
<1> QED BY <1>1, <1>3, <1>4, <1>5

LEMMA AppliedNext == ASSUME Inv1, Inv1', SeenInv, AppliedInv, [Next]_vars PROVE AppliedInv'
<1> TypeOK /\ ControlInv
  BY DEF Inv1
<1>1. CASE Unmoved
  <2>1. UNCHANGED <<hw, who, helper, call, answer, profile, leaves, step, entry, outcome>> /\ Queues
    BY <1>1 DEF Unmoved
  <2>2. Prepared => Prepared'
    <3>1. \A x : Steady(x)
      BY <2>1 DEF Steady
    <3> QED BY <2>1, <3>1, PreparedStays
  <2>3. AppliedMeansInForce'
    BY <2>1 DEF Queues, AppliedInv, AppliedMeansInForce
  <2>4. Now' = Now /\ Prepares(Now)' = Prepares(Now) /\ (Prepares(Now) => Wanted(Now)' = Wanted(Now))
    <3>1. Now' = Now
      BY <2>1, NowSame
    <3>2. \A s : Prepares(s)' = Prepares(s) /\ (Prepares(s) => Wanted(s)' = Wanted(s))
      BY <2>1, PreparesSame
    <3> QED BY <3>1, <3>2
  <2>5. at' = at \/ at' = "queued"
    BY <2>1 DEF Queues
  <2>6. (call # None /\ call.stage = "changed" => InForce(call.field, call.v))'
    BY <2>1 DEF AppliedInv, InForce
  <2>7. (at = "stage" /\ entry # None /\ answer = "ok" /\ Prepares(Now) =>
          InForce(entry.field, Wanted(Now)))'
    BY <2>1, <2>4, <2>5 DEF AppliedInv, InForce
  <2> QED BY <2>1, <2>2, <2>3, <2>5, <2>6, <2>7 DEF AppliedInv
<1>2. CASE Outside
  BY <1>2 DEF Outside, AppliedInv, AppliedMeansInForce
<1>3. CASE Preflight
  <2>1. /\ answer' = "none" /\ call' = None /\ profile' = profile /\ step' = step /\ at = "first"
        /\ at' = "stage" \/ (at' = "done" /\ ~outcome'.applied)
    BY <1>3, PreflightStep DEF TxQuiet
  <2>2. step = 1
    BY <2>1 DEF ControlInv
  <2>3. Prepared'
    <3>1. \A i \in DOMAIN Plan : ~(i < 1)
      BY PlanParts, TypeParts
    <3>2. Plan' = Plan
      BY <2>1, PlanSame
    <3> QED BY <2>1, <2>2, <3>1, <3>2 DEF Prepared
  <2> QED BY <2>1, <2>3 DEF AppliedInv, AppliedMeansInForce
<1>4. CASE Compensate \/ Compensated
  <2>1. /\ at' \in {"rollback", "done"} /\ answer' = "none"
        /\ (call' # None => call'.stage = "sent")
        /\ at' = "done" => ~outcome'.applied
    BY <1>4, CompensateStep, CompensatedStep DEF CompensateEnds, CompensateSends, CompensateSkips
  <2> QED BY <2>1 DEF AppliedInv, AppliedMeansInForce
<1> QED BY <1>1, <1>2, <1>3, <1>4, AppliedRunStage, AppliedStageAnswered, AppliedHelper, StepKinds

-----------------------------------------------------------------------------
(* What a profile has changed                                               *)

Touched == {Target(Plan[i]) : i \in {j \in DOMAIN Plan : j < step}}

\* Only fields of earlier stages have changed, and the one whose command is out.
FieldsInv == at = "stage" => \A x \in DOMAIN was : x \in Touched \/ (entry # None /\ x = entry.field)

\* The field is another's, or is what it was before.
Restored(x) == \/ who[x] = "other" \/ hw[x].v = was[x]
               \/ x = Camera /\ hw[x].v.source = was[x].source

\* The compensation of the stage whose command is out, or whose answer waits.
EntryInv ==
  at = "stage" /\ entry # None =>
    /\ call # None => /\ entry.rev = seen.hw[entry.field].rev /\ entry.old = seen.hw[entry.field].v
                      /\ call.v # entry.old
    /\ entry.field \in DOMAIN was => was[entry.field] = entry.old
    /\ call # None /\ call.stage = "sent" => entry.field \notin DOMAIN was
    /\ call # None /\ call.stage \in {"checked", "changed"} => entry.field \in DOMAIN was
    /\ call # None /\ call.stage = "changed" => hw[entry.field].rev > entry.rev
    /\ call # None /\ call.stage = "refused" /\ entry.field \in DOMAIN was => Restored(entry.field)
    /\ answer = "ok" => entry.field \in DOMAIN was
    /\ answer = "failed" /\ entry.field \in DOMAIN was \ blind =>
         Revision(entry.field) # entry.rev \/ Restored(entry.field)

\* Every compensation has the value from before the profile.
UndoValues == \A i \in DOMAIN undo : undo[i].field \in DOMAIN was /\ undo[i].old = was[undo[i].field]

WasInv ==
  /\ at = "first" => DOMAIN was = {} /\ blind = {}
  /\ FieldsInv
  /\ EntryInv
  /\ UndoValues
  /\ at = "rollback" /\ call # None => call.field \in DOMAIN was /\ call.v = was[call.field]

LEMMA TouchedSame == ASSUME profile' = profile, step' = step PROVE Touched' = Touched
<1>1. Plan' = Plan
  BY PlanSame
<1> QED BY <1>1 DEF Touched, Target

\* What was remembered stays.
Remembered == DOMAIN was \subseteq DOMAIN was' /\ \A x \in DOMAIN was : was'[x] = was[x]

LEMMA UndoValuesStay == ASSUME UndoValues, UndoKept, Remembered PROVE UndoValues'
<1> SUFFICES ASSUME NEW i \in DOMAIN undo'
             PROVE  undo'[i].field \in DOMAIN was' /\ undo'[i].old = was'[undo'[i].field]
  BY DEF UndoValues
<1>1. PICK j \in DOMAIN undo : undo'[i] = undo[j]
  BY DEF UndoKept
<1>2. undo[j].field \in DOMAIN was /\ undo[j].old = was[undo[j].field]
  BY DEF UndoValues
<1>3. undo'[i].field \in DOMAIN was /\ undo'[i].old = was[undo'[i].field]
  BY <1>1, <1>2
<1> QED BY <1>3 DEF Remembered

\* What is restored stays so while RedXe does not write it.
LEMMA RestoredSame ==
  ASSUME UNCHANGED <<hw, who, was>>, NEW x, Restored(x)
  PROVE  Restored(x)'
BY DEF Restored

LEMMA RestoredStays ==
  ASSUME Faded \/ Disturbed, was' = was, UNCHANGED who \/ Disturbed, NEW x \in Fields, Restored(x)
  PROVE  Restored(x)'
<1>1. CASE Faded /\ UNCHANGED who
  <2>1. CASE x # Camera
    BY <1>1, <2>1 DEF Faded, Restored
  <2>2. CASE x = Camera
    BY <1>1, <2>2 DEF Faded, Restored
  <2> QED BY <2>1, <2>2
<1>2. CASE Disturbed
  BY <1>2 DEF Disturbed, Restored
<1> QED BY <1>1, <1>2

LEMMA WasFields == ASSUME TypeOK PROVE DOMAIN was \subseteq Fields
BY DEF TypeOK, HelperTypes

LEMMA RevisionSame == ASSUME seen' = seen, NEW x PROVE Revision(x)' = Revision(x)
BY DEF Revision, Reachable, Present

\* What a command of a stage does to its compensation.
LEMMA EntryCompare ==
  ASSUME Inv1, SeenInv, WasInv, HelperQuiet, Compare, at = "stage"
  PROVE  FieldsInv' /\ EntryInv'
<1> TypeOK /\ ControlInv
  BY DEF Inv1
<1>1. /\ call # None /\ call.op = "set" /\ call.stage = "sent" /\ call.field \in Fields
      /\ hw[call.field].rev = call.rev
      /\ DOMAIN was' = DOMAIN was \cup {call.field}
      /\ \A x \in DOMAIN was : was'[x] = was[x]
      /\ call.field \notin DOMAIN was => was'[call.field] = hw[call.field].v
      /\ call' # None /\ call'.stage = "checked" /\ call'.v = call.v
      /\ UNCHANGED <<answer, seen, blind>>
  BY CompareStep
<1>2. answer = "none"
  BY <1>1 DEF ControlInv
<1>3. /\ entry # None /\ call.field = entry.field /\ call.rev = entry.rev
      /\ at' = at /\ entry' = entry /\ profile' = profile /\ step' = step
  BY <1>1 DEF ControlInv, StageCall, HelperQuiet
<1>4. /\ entry.rev = seen.hw[entry.field].rev /\ entry.old = seen.hw[entry.field].v
      /\ call.v # entry.old /\ entry.field \notin DOMAIN was
  BY <1>1, <1>3 DEF WasInv, EntryInv
<1>5. hw[entry.field].v = entry.old
  BY <1>1, <1>3, <1>4 DEF SeenInv, InTouch, SeenOld
<1>6. EntryInv'
  BY <1>1, <1>2, <1>3, <1>4, <1>5 DEF EntryInv
<1>7. FieldsInv'
  <2>1. Touched' = Touched
    BY <1>3, TouchedSame
  <2> QED BY <1>1, <1>3, <2>1 DEF WasInv, FieldsInv
<1> QED BY <1>6, <1>7

LEMMA EntryMutate ==
  ASSUME Inv1, SeenInv, WasInv, HelperQuiet, Mutate, at = "stage"
  PROVE  EntryInv'
<1> TypeOK /\ ControlInv
  BY DEF Inv1
<1>1. /\ call # None /\ call.op = "set" /\ call.stage = "checked" /\ call.field \in Fields
      /\ hw[call.field].v = call.v => hw'[call.field].rev = hw[call.field].rev
      /\ hw[call.field].v # call.v => hw'[call.field].rev = hw[call.field].rev + 1
      /\ call' # None /\ call'.stage = "changed" /\ call'.v = call.v
      /\ UNCHANGED <<answer, seen, was, blind>>
  BY MutateStep
<1>2. answer = "none"
  BY <1>1 DEF ControlInv
<1>3. /\ entry # None /\ call.field = entry.field
      /\ at' = at /\ entry' = entry
  BY <1>1 DEF ControlInv, StageCall, HelperQuiet
<1>4. /\ entry.rev = seen.hw[entry.field].rev /\ entry.old = seen.hw[entry.field].v
      /\ call.v # entry.old /\ entry.field \in DOMAIN was /\ was[entry.field] = entry.old
  BY <1>1, <1>3 DEF WasInv, EntryInv
<1>5. /\ entry.rev <= hw[entry.field].rev
      /\ entry.rev = hw[entry.field].rev => hw[entry.field].v = entry.old
  BY <1>1, <1>2, <1>3, <1>4 DEF SeenInv, InTouch, SeenOld
<1>6. hw'[entry.field].rev > entry.rev
  <2>1. hw[entry.field].rev \in Nat /\ entry.rev \in Nat
    BY <1>1, <1>3, OwnedFields
  <2> QED BY <1>1, <1>3, <1>4, <1>5, <2>1
<1> QED BY <1>1, <1>2, <1>3, <1>4, <1>6 DEF EntryInv

LEMMA EntryRefuse ==
  ASSUME Inv1, SeenInv, WasInv, HelperQuiet, Refuse, at = "stage"
  PROVE  EntryInv'
<1> TypeOK /\ ControlInv
  BY DEF Inv1
<1>1. /\ call # None /\ call.op = "set" /\ call.stage \in {"sent", "checked"} /\ call.field \in Fields
      /\ call' # None /\ call'.stage = "refused" /\ call'.v = call.v
      /\ UNCHANGED <<hw, who, answer, seen, was, blind>>
  BY RefuseStep, OwnedFields
<1>2. answer = "none"
  BY <1>1 DEF ControlInv
<1>3. /\ entry # None /\ call.field = entry.field
      /\ at' = at /\ entry' = entry
  BY <1>1 DEF ControlInv, StageCall, HelperQuiet
<1>4. /\ entry.rev = seen.hw[entry.field].rev /\ entry.old = seen.hw[entry.field].v
      /\ call.v # entry.old
      /\ entry.field \in DOMAIN was => was[entry.field] = entry.old
  BY <1>1, <1>3 DEF WasInv, EntryInv
<1>5. entry.field \in DOMAIN was => Restored(entry.field)
  <2>1. SeenNow
    BY <1>2 DEF SeenInv, InTouch
  <2>2. CASE entry.field # Camera
    BY <1>1, <1>3, <1>4, <2>1, <2>2 DEF SeenNow, InForce, Unread, Restored
  <2>3. CASE entry.field = Camera
    BY <1>1, <1>3, <1>4, <2>1, <2>3 DEF SeenNow, Unread, Restored
  <2> QED BY <2>2, <2>3
<1>6. entry.field \in DOMAIN was => Restored(entry.field)'
  BY <1>1, <1>3, <1>5 DEF Restored
<1> QED BY <1>1, <1>2, <1>3, <1>4, <1>6 DEF EntryInv

LEMMA EntryReadBack ==
  ASSUME Inv1, WasInv, HelperQuiet, ReadBack, at = "stage"
  PROVE  EntryInv'
<1> TypeOK /\ ControlInv
  BY DEF Inv1
<1>1. /\ call # None /\ CallTyped(call) /\ (call.op = "observe" \/ call.stage \in {"changed", "refused"})
      /\ seen'.hw = hw /\ seen'.gone = gone
      /\ call' = None /\ answer' \in {"ok", "failed"}
      /\ answer' = "ok" => call.stage # "refused"
      /\ UNCHANGED <<hw, who, was, blind>>
  BY ReadBackStep
<1>2. at' = at /\ entry' = entry
  BY DEF HelperQuiet
<1>3. SUFFICES ASSUME entry # None PROVE EntryInv'
  BY <1>2 DEF EntryInv
<1>4. call.op = "set" /\ call.field = entry.field /\ entry.field \in Fields
  BY <1>1, <1>3, OwnedFields DEF ControlInv, StageCall
<1>5. call.stage \in {"changed", "refused"}
  BY <1>1, <1>4, CallFields
<1>6. /\ entry.rev = seen.hw[entry.field].rev
      /\ entry.field \in DOMAIN was => was[entry.field] = entry.old
      /\ call.stage = "changed" => entry.field \in DOMAIN was /\ hw[entry.field].rev > entry.rev
      /\ call.stage = "refused" /\ entry.field \in DOMAIN was => Restored(entry.field)
  BY <1>1, <1>3, <1>5 DEF WasInv, EntryInv
<1>7. Revision(entry.field)' = 0 \/ Revision(entry.field)' = hw[entry.field].rev
  BY <1>1, <1>2 DEF Revision
<1>8. call.stage = "changed" => Revision(entry.field)' # entry.rev
  <2>1. hw[entry.field].rev \in Nat /\ seen.hw[entry.field].rev \in Nat /\ seen.hw[entry.field].rev # 0
    BY <1>4, OwnedFields, InventoryCell, TypeParts
  <2> DEFINE q == Revision(entry.field)'
  <2>2. q = 0 \/ q = hw[entry.field].rev
    BY <1>7
  <2> HIDE DEF q
  <2>3. call.stage = "changed" => q # entry.rev
    BY <1>6, <2>1, <2>2
  <2> QED BY <2>3 DEF q
<1>9. Restored(entry.field) => Restored(entry.field)'
  BY <1>1, <1>2 DEF Restored
<1> QED BY <1>1, <1>2, <1>3, <1>5, <1>6, <1>8, <1>9 DEF EntryInv

LEMMA WasHelper ==
  ASSUME Inv1, Inv1', SeenInv, WasInv, HelperQuiet,
         Compare \/ Mutate \/ Refuse \/ ReadBack \/ ReadBackFails \/ Lose \/ Crash \/ World
  PROVE  WasInv'
<1> TypeOK /\ TypeOK' /\ ControlInv
  BY DEF Inv1
<1>1. at' = at /\ entry' = entry /\ profile' = profile /\ step' = step /\ undo' = undo
  BY DEF HelperQuiet
<1>2. Remembered
  <2>1. CASE Compare
    BY <2>1, CompareStep DEF Remembered
  <2>2. CASE Mutate \/ Refuse \/ ReadBack \/ ReadBackFails \/ Lose \/ Crash \/ World
    <3>1. was' = was
      BY <2>2, MutateStep, RefuseStep, ReadBackStep, ReadBackFailsStep, LoseStep, CrashStep, WorldStep DEF Disturbed
    <3> QED BY <3>1 DEF Remembered
  <2> QED BY <2>1, <2>2
<1>3. UndoValues'
  BY <1>1, <1>2, UndoSame, UndoValuesStay DEF WasInv
<1>4. at' = "first" => DOMAIN was' = {} /\ blind' = {}
  <2>1. SUFFICES ASSUME at = "first" PROVE DOMAIN was' = {} /\ blind' = {}
    BY <1>1
  <2>2. call # None => call.op = "observe" /\ CallTyped(call) /\ call.stage = "sent"
    BY <2>1, TypeParts DEF ControlInv, CallTyped
  <2>3. ~Compare /\ ~Mutate
    BY <2>2, CompareStep, MutateStep
  <2>4. UNCHANGED <<was, blind>>
    BY <2>2, <2>3, RefuseStep, ReadBackStep, ReadBackFailsStep, LoseStep, CrashStep, WorldStep DEF Disturbed
  <2> QED BY <2>1, <2>4 DEF WasInv
<1>5. at' = "rollback" /\ call' # None => call'.field \in DOMAIN was' /\ call'.v = was'[call'.field]
  <2>1. call' # None => call # None /\ call'.field = call.field /\ call'.v = call.v
    BY CompareStep, MutateStep, RefuseStep, ReadBackStep, ReadBackFailsStep, LoseStep, CrashStep, WorldStep DEF Disturbed
  <2> QED BY <1>1, <1>2, <2>1 DEF WasInv, Remembered
<1>6. FieldsInv' /\ EntryInv'
  <2>1. CASE at # "stage"
    BY <1>1, <2>1 DEF FieldsInv, EntryInv
  <2>2. CASE at = "stage" /\ Compare
    BY <2>2, EntryCompare
  <2>3. CASE at = "stage" /\ ~Compare
    <3>1. was' = was
      BY <2>3, MutateStep, RefuseStep, ReadBackStep, ReadBackFailsStep, LoseStep, CrashStep, WorldStep DEF Disturbed
    <3>2. FieldsInv'
      <4>1. Touched' = Touched
        BY <1>1, TouchedSame
      <4> QED BY <1>1, <3>1, <4>1 DEF WasInv, FieldsInv
    <3>3. CASE ReadBack
      BY <2>3, <3>2, <3>3, EntryReadBack
    <3>4. CASE Mutate \/ Refuse
      BY <2>3, <3>2, <3>4, EntryMutate, EntryRefuse
    <3>5. CASE ReadBackFails
      <4>1. /\ call # None /\ call' = None /\ answer' = "failed" /\ CallTyped(call)
            /\ seen'.hw = seen.hw /\ seen'.gone = seen.gone
            /\ blind' = IF call.stage = "changed" THEN blind \cup {call.field} ELSE blind
            /\ UNCHANGED <<was, hw, who>>
        BY <3>5, ReadBackFailsStep
      <4>2. entry # None => call.op = "set" /\ call.field = entry.field
        BY <2>3, <4>1 DEF ControlInv, StageCall
      <4>3. entry # None /\ entry.field \in DOMAIN was \ blind' => Restored(entry.field)'
        <5>1. entry # None => call.stage \in {"changed", "refused"}
          BY <3>5, <4>1, <4>2, CallFields DEF ReadBackFails, Served
        <5>2. entry # None /\ entry.field \in DOMAIN was \ blind' => Restored(entry.field)
          BY <2>3, <4>1, <4>2, <5>1 DEF WasInv, EntryInv
        <5> QED BY <1>1, <4>1, <5>2 DEF Restored
      <4> QED BY <1>1, <2>3, <3>2, <4>1, <4>3 DEF WasInv, EntryInv
    <3>6. CASE Lose
      <4>1. call # None /\ call' = None /\ answer' = "lost" /\ UNCHANGED <<was, blind>>
        BY <3>6, LoseStep
      <4> QED BY <1>1, <2>3, <3>2, <4>1 DEF WasInv, EntryInv
    <3>7. CASE Crash
      <4>1. call = None /\ UNCHANGED <<call, answer, seen, was, blind, who>> /\ Faded
        BY <3>7, CrashStep
      <4>2. \A x : Revision(x)' = Revision(x)
        BY <4>1, RevisionSame
      <4>3. entry # None /\ Restored(entry.field) => Restored(entry.field)'
        <5>1. \A x \in Fields : Restored(x) => Restored(x)'
          BY <4>1, RestoredStays
        <5> QED BY <1>1, <5>1, OwnedFields DEF Restored
      <4> QED BY <1>1, <2>3, <3>2, <4>1, <4>2, <4>3 DEF WasInv, EntryInv
    <3>8. CASE World
      <4>1. Disturbed
        BY <3>8, WorldStep
      <4>2. \A x : Revision(x)' = Revision(x)
        BY <4>1, RevisionSame DEF Disturbed
      <4>3. ASSUME entry # None, call # None, call.stage = "changed" PROVE hw'[entry.field].rev > entry.rev
        <5>1. /\ hw[entry.field].rev > entry.rev /\ entry.field \in Fields /\ entry.rev \in Nat
              /\ hw[entry.field].rev \in Nat
          BY <2>3, <4>3, OwnedFields DEF WasInv, EntryInv
        <5>2. hw'[entry.field].rev \in Nat /\ hw'[entry.field].rev >= hw[entry.field].rev
          <6>1. hw'[entry.field].rev \in Nat
            BY <4>1, <5>1, InventoryCell DEF Disturbed
          <6>2. hw'[entry.field] = hw[entry.field] \/ hw'[entry.field].rev > hw[entry.field].rev
            BY <4>1, <5>1 DEF Disturbed
          <6> QED BY <5>1, <6>1, <6>2
        <5> QED BY <5>1, <5>2
      <4>4. UNCHANGED <<call, answer, seen, was, blind>>
        BY <4>1 DEF Disturbed
      <4>5. entry # None /\ Restored(entry.field) => Restored(entry.field)'
        <5>1. \A x \in Fields : Restored(x) => Restored(x)'
          BY <4>1, <4>4, RestoredStays
        <5> QED BY <1>1, <5>1, OwnedFields DEF Restored
      <4> QED BY <1>1, <2>3, <3>2, <4>2, <4>3, <4>4, <4>5 DEF WasInv, EntryInv
    <3> QED BY <2>3, <3>3, <3>4, <3>5, <3>6, <3>7, <3>8
  <2> QED BY <2>1, <2>2, <2>3
<1> QED BY <1>3, <1>4, <1>5, <1>6 DEF WasInv

\* The stages that are past are those before, and the one that is left.
LEMMA TouchedGrows ==
  ASSUME Inv1, at = "stage", profile' = profile, step' = step + 1
  PROVE  Touched \subseteq Touched' /\ Target(Now) \in Touched'
<1>1. Plan' = Plan /\ \A s : Target(s)' = Target(s)
  BY PlanSame, TargetSame
<1>2. step \in DOMAIN Plan /\ step \in Nat /\ \A i \in DOMAIN Plan : i \in Nat
  BY StageFacts, PlanParts DEF Inv1
<1>3. Touched' = {Target(Plan[i]) : i \in {j \in DOMAIN Plan : j < step + 1}}
  BY <1>1 DEF Touched
<1>4. \A i \in DOMAIN Plan : i < step => i < step + 1
  BY <1>2
<1>5. step < step + 1
  BY <1>2
<1> QED BY <1>2, <1>3, <1>4, <1>5 DEF Touched, Now

\* A stage is about a field of its own.
LEMMA NotTouched ==
  ASSUME Inv1, at = "stage", Now.op # "verify"
  PROVE  Target(Now) \notin Touched
<1>1. profile \in Profiles /\ step \in DOMAIN Plan /\ step # Len(Plan)
  BY StageFacts DEF Inv1
<1>2. SUFFICES ASSUME NEW i \in DOMAIN Plan, i < step, Target(Plan[i]) = Target(Plan[step]) PROVE FALSE
  BY DEF Touched, Now
<1>3. Len(Plan) \in Nat /\ DOMAIN Plan = 1 .. Len(Plan)
  BY <1>1, PlanParts
<1>4. i # Len(Plan) /\ i # step
  BY <1>1, <1>2, <1>3
<1> QED BY <1>1, <1>2, <1>4, TargetsDiffer

LEMMA WasTx ==
  ASSUME Inv1, Inv1', WasInv,
         Preflight \/ RunStage \/ StageAnswered \/ Compensate \/ Compensated
  PROVE  WasInv'
<1> TypeOK /\ TypeOK' /\ ControlInv
  BY DEF Inv1
<1>1. CASE Preflight
  <2>1. /\ at = "first" /\ at' # "first" /\ answer' = "none" /\ call' = None /\ entry' = None /\ TxQuiet
        /\ undo' = <<>>
    BY <1>1, PreflightStep
  <2>2. DOMAIN was' = {}
    BY <2>1 DEF WasInv, TxQuiet
  <2> QED BY <2>1, <2>2 DEF WasInv, FieldsInv, EntryInv, UndoValues
<1>2. CASE RunStage
  <2>1. /\ at = "stage" /\ call = None /\ answer' = "none" /\ entry = None
        /\ TxQuiet /\ undo' = undo
        /\ RunStageSkips \/ RunStageAborts \/ RunStageSends \/ RunStageReads
    BY <1>2, RunStageStep
  <2>2. UndoValues' /\ UNCHANGED <<was, seen, profile>>
    BY <2>1, UndoSame, UndoValuesStay DEF TxQuiet, Remembered, WasInv
  <2>3. \A x \in DOMAIN was : x \in Touched
    BY <2>1 DEF WasInv, FieldsInv
  <2>4. CASE RunStageSkips
    <3>1. step' = step + 1 /\ entry' = None /\ call' = None /\ at' = at
      BY <2>4 DEF RunStageSkips
    <3>2. Touched \subseteq Touched'
      BY <2>1, <2>2, <3>1, TouchedGrows
    <3> QED BY <2>1, <2>2, <2>3, <3>1, <3>2 DEF WasInv, FieldsInv, EntryInv
  <2>5. CASE RunStageAborts
    BY <2>1, <2>2, <2>5 DEF WasInv, FieldsInv, EntryInv, RunStageAborts
  <2>6. CASE RunStageSends
    <3>1. /\ step' = step /\ at' = at /\ Now.op # "verify" /\ ~Already(Now)
          /\ entry' = Compensation(Now) /\ call'.stage = "sent" /\ call'.v = Wanted(Now)
      BY <2>6 DEF RunStageSends
    <3>2. Touched' = Touched
      BY <2>2, <3>1, TouchedSame
    <3>3. Target(Now) \in Fields /\ Target(Now) \notin Touched
      BY <2>1, <3>1, StageFacts, NotTouched
    <3>4. entry'.field = Target(Now) /\ entry'.old = seen.hw[Target(Now)].v /\ entry'.rev = seen.hw[Target(Now)].rev
      BY <3>1, <3>3, CompensationTyped
    <3>5. call'.v # entry'.old
      BY <3>1, <3>4 DEF Already
    <3>6. EntryInv'
      BY <2>1, <2>2, <2>3, <3>1, <3>3, <3>4, <3>5 DEF EntryInv
    <3>7. FieldsInv'
      BY <2>2, <2>3, <3>2 DEF FieldsInv
    <3> QED BY <2>1, <2>2, <3>1, <3>6, <3>7 DEF WasInv
  <2>7. CASE RunStageReads
    <3>1. step' = step /\ entry' = None /\ at' = at
      BY <2>7 DEF RunStageReads
    <3>2. Touched' = Touched
      BY <2>2, <3>1, TouchedSame
    <3> QED BY <2>1, <2>2, <2>3, <3>1, <3>2 DEF WasInv, FieldsInv, EntryInv
  <2> QED BY <2>1, <2>4, <2>5, <2>6, <2>7
<1>3. CASE StageAnswered
  <2>1. /\ at = "stage" /\ answer # "none" /\ answer' = "none" /\ call = None /\ call' = None
        /\ entry' = None /\ TxQuiet
        /\ StageApplied \/ StageMismatched \/ StageSucceeded \/ StageFailed
    BY <1>3, StageAnsweredStep
  <2>2. UNCHANGED <<was, seen, profile>> /\ Remembered
    BY <2>1 DEF TxQuiet, Remembered
  <2>3. CASE StageSucceeded
    <3> DEFINE u == [entry EXCEPT !.rev = Revision(entry.field)]
    <3>1. undo' = <<u>> \o undo /\ entry # None /\ answer = "ok" /\ step' = step + 1 /\ at' = at
      BY <2>3 DEF StageSucceeded
    <3>2. u \in Entries /\ u.field = entry.field /\ u.old = entry.old
      BY <3>1, PushedEntry, TypeParts
    <3>3. entry.field \in DOMAIN was /\ was[entry.field] = entry.old
      BY <2>1, <3>1 DEF WasInv, EntryInv
    <3> HIDE DEF u
    <3>4. undo' \in Seq(Entries) /\ undo'[1] = u
          /\ \A j \in DOMAIN undo' : j = 1 \/ (j - 1 \in DOMAIN undo /\ undo'[j] = undo[j - 1])
      BY <3>1, <3>2, Pushed, TypeParts
    <3>5. ASSUME NEW i \in DOMAIN undo'
          PROVE  undo'[i].field \in DOMAIN was /\ undo'[i].old = was[undo'[i].field]
      <4>1. CASE i = 1
        BY <3>2, <3>3, <3>4, <4>1
      <4>2. CASE i # 1
        <5>1. i - 1 \in DOMAIN undo /\ undo'[i] = undo[i - 1]
          BY <3>4, <4>2
        <5> QED BY <5>1 DEF WasInv, UndoValues
      <4> QED BY <4>1, <4>2
    <3>6. UndoValues'
      BY <2>2, <3>5 DEF UndoValues
    <3>7. entry.field = Target(Now)
      BY <2>1, <3>1 DEF ControlInv, StageCall
    <3>8. Touched \subseteq Touched' /\ entry.field \in Touched'
      BY <2>1, <2>2, <3>1, <3>7, TouchedGrows
    <3>9. FieldsInv'
      BY <2>1, <2>2, <3>1, <3>8 DEF WasInv, FieldsInv
    <3> QED BY <2>1, <3>1, <3>6, <3>9 DEF WasInv, EntryInv
  <2>4. CASE StageApplied \/ StageMismatched \/ StageFailed
    <3>1. undo' = undo /\ at' \in {"done", "rollback"}
      BY <2>4 DEF StageApplied, StageMismatched, StageFailed
    <3>2. UndoValues'
      BY <2>2, <3>1, UndoSame, UndoValuesStay DEF WasInv
    <3> QED BY <2>1, <3>1, <3>2 DEF WasInv, FieldsInv, EntryInv
  <2> QED BY <2>1, <2>3, <2>4
<1>4. CASE Compensate
  <2>1. /\ at = "rollback" /\ answer' = "none" /\ TxQuiet
        /\ CompensateEnds \/ CompensateSends \/ CompensateSkips
    BY <1>4, CompensateStep
  <2>2. UNCHANGED <<was, seen, profile>> /\ Remembered
    BY <2>1 DEF TxQuiet, Remembered
  <2>3. UndoKept
    BY <2>1, UndoSame, UndoPopped DEF CompensateEnds, CompensateSends, CompensateSkips
  <2>4. UndoValues'
    BY <2>2, <2>3, UndoValuesStay DEF WasInv
  <2>5. CASE CompensateSends
    <3>1. /\ undo # <<>> /\ call'.field = undo[1].field /\ call'.v = undo[1].old /\ at' = at
      BY <2>5 DEF CompensateSends
    <3>2. 1 \in DOMAIN undo
      BY <3>1, Popped, TypeParts
    <3>3. undo[1].field \in DOMAIN was /\ undo[1].old = was[undo[1].field]
      BY <3>2 DEF WasInv, UndoValues
    <3> QED BY <2>1, <2>2, <2>4, <3>1, <3>3 DEF WasInv, FieldsInv, EntryInv
  <2>6. CASE CompensateEnds \/ CompensateSkips
    <3>1. call' = None /\ at' \in {"rollback", "done"}
      BY <2>1, <2>6 DEF CompensateEnds, CompensateSkips
    <3> QED BY <2>1, <2>2, <2>4, <3>1 DEF WasInv, FieldsInv, EntryInv
  <2> QED BY <2>1, <2>5, <2>6
<1>5. CASE Compensated
  <2>1. /\ at = "rollback" /\ at' = at /\ call' = None /\ TxQuiet /\ undo' = undo
    BY <1>5, CompensatedStep
  <2>2. UndoValues'
    BY <2>1, UndoSame, UndoValuesStay DEF TxQuiet, Remembered, WasInv
  <2> QED BY <2>1, <2>2 DEF WasInv, FieldsInv, EntryInv
<1> QED BY <1>1, <1>2, <1>3, <1>4, <1>5

LEMMA WasNext == ASSUME Inv1, Inv1', SeenInv, WasInv, [Next]_vars PROVE WasInv'
<1> TypeOK /\ ControlInv
  BY DEF Inv1
<1>1. CASE Unmoved
  <2>1. /\ UNCHANGED <<hw, who, call, answer, seen, was, blind, profile, step, entry, undo>>
        /\ at' = at \/ at' = "queued"
    BY <1>1 DEF Unmoved, Queues
  <2>2. Touched' = Touched /\ \A x : Revision(x)' = Revision(x)
    BY <2>1, TouchedSame, RevisionSame
  <2>3. UndoValues'
    BY <2>1 DEF WasInv, UndoValues
  <2>4. FieldsInv'
    BY <2>1, <2>2 DEF WasInv, FieldsInv
  <2>5. EntryInv'
    <3>1. \A x : Restored(x) => Restored(x)'
      BY <2>1, RestoredSame
    <3> QED BY <2>1, <2>2, <3>1 DEF WasInv, EntryInv
  <2> QED BY <2>1, <2>3, <2>4, <2>5 DEF WasInv
<1>2. CASE Outside
  <2>1. undo' = <<>>
    BY <1>2 DEF Outside, Inv1, ControlInv
  <2>2. UndoValues'
    BY <2>1 DEF UndoValues
  <2> QED BY <1>2, <2>2 DEF Outside, WasInv, FieldsInv, EntryInv
<1> QED BY <1>1, <1>2, WasTx, WasHelper, StepKinds


-----------------------------------------------------------------------------
(* What a failed profile has put back                                       *)

\* It will be put back, or the outcome will say that it was not.
Pending(x) ==
  \/ \E i \in DOMAIN undo : undo[i].field = x
  \/ entry # None /\ entry.field = x
  \/ at = "rollback" /\ call # None /\ call.field = x /\ call.stage # "changed"
  \/ at = "rollback" /\ answer \in {"failed", "lost"}

HonestInv ==
  /\ at \in {"stage", "rollback"} /\ outcome.whole =>
       \A x \in DOMAIN was \ blind : Restored(x) \/ Pending(x)
  /\ UndoIsHonest

\* A setting that is still to be put back is so after a step of the helper.
LEMMA PendingStays ==
  ASSUME UNCHANGED <<at, entry, undo, call, answer>>, NEW x, Pending(x)
  PROVE  Pending(x)'
BY DEF Pending

LEMMA HonestCompare ==
  ASSUME Inv1, WasInv, HonestInv, HelperQuiet, Compare, at \in {"stage", "rollback"}, outcome.whole,
         NEW x \in DOMAIN was' \ blind'
  PROVE  Restored(x)' \/ Pending(x)'
<1> TypeOK /\ ControlInv
  BY DEF Inv1
<1>1. /\ call # None /\ call.op = "set" /\ call.field \in Fields
      /\ call' # None /\ call'.stage = "checked" /\ call'.field = call.field
      /\ DOMAIN was' = DOMAIN was \cup {call.field}
      /\ \A y \in DOMAIN was : was'[y] = was[y]
      /\ UNCHANGED <<hw, who, blind, answer>>
  BY CompareStep
<1>2. at' = at /\ entry' = entry /\ undo' = undo
  BY DEF HelperQuiet
<1>3. CASE x = call.field /\ at = "stage"
  <2>1. entry # None /\ entry.field = x
    BY <1>1, <1>3 DEF ControlInv, StageCall
  <2> QED BY <1>2, <2>1 DEF Pending
<1>4. CASE x = call.field /\ at = "rollback"
  BY <1>1, <1>2, <1>4 DEF Pending
<1>5. CASE x # call.field
  <2>1. x \in DOMAIN was \ blind /\ was'[x] = was[x]
    BY <1>1, <1>5
  <2>2. Restored(x) \/ Pending(x)
    BY <2>1 DEF HonestInv
  <2>3. Restored(x) => Restored(x)'
    BY <1>1, <2>1 DEF Restored
  <2>4. Pending(x) => Pending(x)'
    BY <1>1, <1>2, <1>5 DEF Pending
  <2> QED BY <2>2, <2>3, <2>4
<1> QED BY <1>3, <1>4, <1>5

LEMMA HonestMutate ==
  ASSUME Inv1, WasInv, HonestInv, HelperQuiet, Mutate, at \in {"stage", "rollback"}, outcome.whole,
         NEW x \in DOMAIN was' \ blind'
  PROVE  Restored(x)' \/ Pending(x)'
<1> TypeOK /\ ControlInv
  BY DEF Inv1
<1>1. /\ call # None /\ call.op = "set" /\ call.field \in Fields
      /\ \A y \in Fields \ {call.field} : hw'[y] = hw[y] /\ who'[y] = who[y]
      /\ hw'[call.field].v = call.v
      /\ UNCHANGED <<was, blind>>
  BY MutateStep
<1>2. at' = at /\ entry' = entry /\ undo' = undo /\ answer = "none"
  BY <1>1 DEF ControlInv, HelperQuiet
<1>3. CASE x = call.field /\ at = "stage"
  <2>1. entry # None /\ entry.field = x
    BY <1>1, <1>3 DEF ControlInv, StageCall
  <2> QED BY <1>2, <2>1 DEF Pending
<1>4. CASE x = call.field /\ at = "rollback"
  <2>1. x \in DOMAIN was /\ call.v = was[x]
    BY <1>1, <1>4 DEF WasInv
  <2> QED BY <1>1, <1>4, <2>1 DEF Restored
<1>5. CASE x # call.field
  <2>1. x \in DOMAIN was \ blind /\ x \in Fields
    BY <1>1, <1>5, WasFields
  <2>2. Restored(x) \/ Pending(x)
    BY <2>1 DEF HonestInv
  <2>3. Restored(x) => Restored(x)'
    BY <1>1, <1>5, <2>1 DEF Restored
  <2>4. Pending(x) => Pending(x)'
    BY <1>2, <1>5 DEF Pending
  <2> QED BY <2>2, <2>3, <2>4
<1> QED BY <1>3, <1>4, <1>5

LEMMA HonestHelper ==
  ASSUME Inv1, WasInv, HonestInv, HelperQuiet,
         Compare \/ Mutate \/ Refuse \/ ReadBack \/ ReadBackFails \/ Lose \/ Crash \/ World
  PROVE  HonestInv'
<1> TypeOK /\ ControlInv
  BY DEF Inv1
<1>1. at' = at /\ entry' = entry /\ undo' = undo /\ outcome' = outcome
  BY DEF HelperQuiet
<1>2. ASSUME at \in {"stage", "rollback"}, outcome.whole, NEW x \in DOMAIN was' \ blind'
      PROVE  Restored(x)' \/ Pending(x)'
  <2>1. CASE Mutate
    BY <1>2, <2>1, HonestMutate
  <2>a. CASE Compare
    BY <1>2, <2>a, HonestCompare
  <2>2. CASE ~Mutate /\ ~Compare
    <3>1. was' = was /\ blind \subseteq blind'
      BY <2>2, RefuseStep, ReadBackStep, ReadBackFailsStep, LoseStep, CrashStep, WorldStep DEF Disturbed
    <3>2. x \in Fields /\ (Restored(x) \/ Pending(x))
      BY <1>2, <3>1, WasFields DEF HonestInv
    <3>3. CASE Refuse
      <4>1. /\ call # None /\ call' # None /\ call'.stage = "refused" /\ call'.field = call.field
            /\ UNCHANGED <<hw, who, was, answer>>
        BY <3>3, RefuseStep
      <4>2. Pending(x) => Pending(x)'
        BY <1>1, <4>1 DEF Pending
      <4> QED BY <3>2, <4>1, <4>2, RestoredSame
    <3>4. CASE ReadBack
      <4>1. /\ call # None /\ CallTyped(call) /\ (call.op = "observe" \/ call.stage \in {"changed", "refused"})
            /\ call' = None /\ answer' \in {"ok", "failed"}
            /\ answer' = "ok" => call.stage # "refused"
            /\ UNCHANGED <<hw, who, was>>
        BY <3>4, ReadBackStep
      <4>2. answer = "none" /\ (at = "rollback" => call.op = "set")
        BY <4>1 DEF ControlInv
      <4>3. at = "rollback" /\ call.stage # "changed" => answer' = "failed"
        BY <4>1, <4>2, CallFields
      <4>4. Pending(x) => Pending(x)'
        BY <1>1, <4>1, <4>2, <4>3 DEF Pending
      <4> QED BY <3>2, <4>1, <4>4, RestoredSame
    <3>5. CASE ReadBackFails
      <4>1. call # None /\ call' = None /\ answer' = "failed" /\ UNCHANGED <<hw, who, was>>
        BY <3>5, ReadBackFailsStep
      <4>2. Pending(x) => Pending(x)'
        BY <1>1, <1>2, <4>1 DEF Pending
      <4> QED BY <3>2, <4>1, <4>2, RestoredSame
    <3>6. CASE Lose
      <4>1. call # None /\ call' = None /\ answer' = "lost" /\ Faded /\ UNCHANGED <<who, was>>
        BY <3>6, LoseStep
      <4>2. Pending(x) => Pending(x)'
        BY <1>1, <1>2, <4>1 DEF Pending
      <4> QED BY <3>2, <4>1, <4>2, RestoredStays
    <3>7. CASE Crash
      <4>1. Faded /\ UNCHANGED <<who, was, call, answer>>
        BY <3>7, CrashStep
      <4> QED BY <1>1, <3>2, <4>1, RestoredStays, PendingStays
    <3>8. CASE World
      <4>1. Disturbed /\ UNCHANGED <<was, call, answer>>
        BY <3>8, WorldStep DEF Disturbed
      <4> QED BY <1>1, <3>2, <4>1, RestoredStays, PendingStays
    <3> QED BY <2>2, <3>3, <3>4, <3>5, <3>6, <3>7, <3>8
  <2> QED BY <2>1, <2>2, <2>a
<1>3. UndoIsHonest'
  <2> SUFFICES ASSUME at = "done", ~outcome.applied, outcome.whole, NEW x \in DOMAIN was' \ blind'
               PROVE  Restored(x)'
    BY <1>1 DEF UndoIsHonest, Restored
  <2>1. call = None
    BY DEF ControlInv
  <2>2. Crash \/ World
    BY <2>1, CompareStep, MutateStep, RefuseStep, ReadBackStep, ReadBackFailsStep, LoseStep
  <2>3. (Faded /\ UNCHANGED <<who, was, blind>>) \/ (Disturbed /\ UNCHANGED <<was, blind>>)
    BY <2>2, CrashStep, WorldStep DEF Disturbed
  <2>4. x \in DOMAIN was \ blind /\ x \in Fields
    BY <2>3, WasFields
  <2>5. Restored(x)
    BY <2>4 DEF HonestInv, UndoIsHonest, Restored
  <2> QED BY <2>3, <2>4, <2>5, RestoredStays
<1> QED BY <1>1, <1>2, <1>3 DEF HonestInv


\* What is pending stays so while the compensations do.
LEMMA HonestTx ==
  ASSUME Inv1, WasInv, HonestInv,
         Preflight \/ RunStage \/ StageAnswered \/ Compensate \/ Compensated
  PROVE  HonestInv'
<1> TypeOK /\ ControlInv
  BY DEF Inv1
<1>1. TxQuiet /\ UNCHANGED <<hw, who, was, blind>>
  BY PreflightStep, RunStageStep, StageAnsweredStep, CompensateStep, CompensatedStep DEF TxQuiet
<1>2. \A x : Restored(x) => Restored(x)'
  BY <1>1, RestoredSame
<1>3. CASE Preflight
  <2>1. at = "first" /\ at' \in {"stage", "done"}
    BY <1>3, PreflightStep
  <2>2. DOMAIN was' = {}
    BY <1>1, <2>1 DEF WasInv
  <2> QED BY <2>2 DEF HonestInv, UndoIsHonest
<1>4. CASE RunStage
  <2>1. /\ at = "stage" /\ call = None /\ answer = "none" /\ entry = None /\ undo' = undo
        /\ at' \in {"stage", "rollback"} /\ outcome'.whole = outcome.whole
    BY <1>4, RunStageStep DEF RunStageSkips, RunStageAborts, RunStageSends, RunStageReads
  <2>2. \A x : Pending(x) => Pending(x)'
    BY <2>1 DEF Pending
  <2> QED BY <1>1, <1>2, <2>1, <2>2 DEF HonestInv, UndoIsHonest
<1>5. CASE StageAnswered
  <2>1. /\ at = "stage" /\ answer # "none" /\ answer' = "none" /\ call = None /\ call' = None
        /\ entry' = None
        /\ StageApplied \/ StageMismatched \/ StageSucceeded \/ StageFailed
    BY <1>5, StageAnsweredStep
  <2>2. CASE StageApplied
    BY <2>2 DEF StageApplied, HonestInv, UndoIsHonest
  <2>3. CASE StageMismatched
    <3>1. at' = "rollback" /\ outcome'.whole = outcome.whole /\ entry = None /\ undo' = undo
      BY <2>3 DEF StageMismatched
    <3>2. \A x : Pending(x) => Pending(x)'
      BY <2>1, <3>1 DEF Pending
    <3> QED BY <1>1, <1>2, <2>1, <3>1, <3>2 DEF HonestInv, UndoIsHonest
  <2>4. CASE StageSucceeded
    <3> DEFINE u == [entry EXCEPT !.rev = Revision(entry.field)]
    <3>1. undo' = <<u>> \o undo /\ entry # None /\ at' = at /\ outcome' = outcome
      BY <2>4 DEF StageSucceeded
    <3>2. u \in Entries /\ u.field = entry.field
      BY <3>1, PushedEntry, TypeParts
    <3> HIDE DEF u
    <3>3. /\ undo'[1] = u /\ 1 \in DOMAIN undo'
          /\ \A i \in DOMAIN undo : i + 1 \in DOMAIN undo' /\ undo'[i + 1] = undo[i]
      BY <3>1, <3>2, Pushed, TypeParts
    <3>4. ASSUME NEW x, Pending(x) PROVE Pending(x)'
      <4>1. CASE entry.field = x
        BY <3>2, <3>3, <4>1 DEF Pending
      <4>2. CASE entry.field # x
        <5>1. PICK i \in DOMAIN undo : undo[i].field = x
          BY <2>1, <3>4, <4>2 DEF Pending
        <5>2. i + 1 \in DOMAIN undo' /\ undo'[i + 1].field = x
          BY <3>3, <5>1
        <5> QED BY <5>2 DEF Pending
      <4> QED BY <4>1, <4>2
    <3> QED BY <1>1, <1>2, <2>1, <3>1, <3>4 DEF HonestInv, UndoIsHonest
  <2>5. CASE StageFailed
    <3>1. /\ at' = "rollback" /\ undo' = undo /\ entry # None
          /\ outcome'.whole => outcome.whole /\ answer = "failed" /\ Revision(entry.field) = entry.rev
      BY <2>5 DEF StageFailed
    <3>2. ASSUME outcome'.whole, NEW x \in DOMAIN was \ blind, Pending(x)
          PROVE  Restored(x)' \/ Pending(x)'
      <4>1. CASE x = entry.field
        <5>1. Restored(x)
          BY <2>1, <3>1, <3>2, <4>1 DEF WasInv, EntryInv
        <5> QED BY <1>2, <5>1
      <4>2. CASE x # entry.field
        <5>1. PICK i \in DOMAIN undo : undo[i].field = x
          BY <2>1, <3>2, <4>2 DEF Pending
        <5> QED BY <3>1, <5>1 DEF Pending
      <4> QED BY <4>1, <4>2
    <3> QED BY <1>1, <1>2, <2>1, <3>1, <3>2 DEF HonestInv, UndoIsHonest
  <2> QED BY <2>1, <2>2, <2>3, <2>4, <2>5
<1>6. CASE Compensate
  <2>1. /\ at = "rollback" /\ call = None /\ answer = "none" /\ answer' = "none" /\ entry = None
        /\ ~outcome.applied
        /\ CompensateEnds \/ CompensateSends \/ CompensateSkips
    BY <1>6, CompensateStep
  <2>2. CASE CompensateEnds
    <3>1. undo = <<>> /\ at' = "done" /\ outcome' = outcome
      BY <2>2 DEF CompensateEnds
    <3>2. \A x : ~Pending(x)
      BY <2>1, <3>1 DEF Pending
    <3>3. outcome'.whole => \A x \in DOMAIN was' \ blind' : Restored(x)'
      BY <1>1, <1>2, <2>1, <3>1, <3>2 DEF HonestInv
    <3>4. UndoIsHonest'
      BY <3>3 DEF UndoIsHonest, Restored
    <3> QED BY <3>1, <3>4 DEF HonestInv
  <2>3. CASE CompensateSends
    <3>1. /\ undo # <<>> /\ at' = at /\ undo' = Tail(undo) /\ outcome' = outcome
          /\ call' # None /\ call'.field = undo[1].field /\ call'.stage = "sent"
      BY <2>3 DEF CompensateSends
    <3>2. \A j \in DOMAIN undo : j = 1 \/ (j - 1 \in DOMAIN undo' /\ undo'[j - 1] = undo[j])
      BY <3>1, Popped, TypeParts
    <3>3. ASSUME NEW x, Pending(x) PROVE Pending(x)'
      <4>1. PICK i \in DOMAIN undo : undo[i].field = x
        BY <2>1, <3>3 DEF Pending
      <4>2. CASE i = 1
        BY <2>1, <3>1, <4>1, <4>2 DEF Pending
      <4>3. CASE i # 1
        <5>1. i - 1 \in DOMAIN undo' /\ undo'[i - 1].field = x
          BY <3>2, <4>1, <4>3
        <5> QED BY <5>1 DEF Pending
      <4> QED BY <4>2, <4>3
    <3> QED BY <1>1, <1>2, <2>1, <3>1, <3>3 DEF HonestInv, UndoIsHonest
  <2>4. CASE CompensateSkips
    BY <2>1, <2>4 DEF CompensateSkips, HonestInv, UndoIsHonest
  <2> QED BY <2>1, <2>2, <2>3, <2>4
<1>7. CASE Compensated
  <2>1. /\ at = "rollback" /\ at' = at /\ call = None /\ entry = None /\ undo' = undo
        /\ outcome'.whole => outcome.whole /\ answer = "ok"
    BY <1>7, CompensatedStep
  <2>2. ASSUME outcome'.whole, NEW x, Pending(x) PROVE Pending(x)'
    BY <2>1, <2>2 DEF Pending
  <2> QED BY <1>1, <1>2, <2>1, <2>2 DEF HonestInv, UndoIsHonest
<1> QED BY <1>3, <1>4, <1>5, <1>6, <1>7

LEMMA HonestNext == ASSUME Inv1, Inv1', WasInv, HonestInv, [Next]_vars PROVE HonestInv'
<1>1. CASE Unmoved
  <2>1. /\ UNCHANGED <<hw, who, call, answer, was, blind, entry, undo, outcome>>
        /\ at' = at \/ at' = "queued"
    BY <1>1 DEF Unmoved, Queues
  <2>2. \A x : (Restored(x) => Restored(x)') /\ (at' = at => (Pending(x) => Pending(x)'))
    BY <2>1, RestoredSame, PendingStays
  <2>3. CASE at' = at
    BY <2>1, <2>2, <2>3 DEF HonestInv, UndoIsHonest
  <2>4. CASE at' = "queued"
    BY <2>4 DEF HonestInv, UndoIsHonest
  <2> QED BY <2>1, <2>3, <2>4
<1>2. CASE Outside
  BY <1>2 DEF Outside, HonestInv, UndoIsHonest
<1> QED BY <1>1, <1>2, HonestTx, HonestHelper, StepKinds


-----------------------------------------------------------------------------
(* What a flow's last mute needs                                            *)

\* The lane that a flow's mutes wait in.
MuteLane(f) == [op |-> "switch", dev |-> f]

\* What the UI thread does to the acknowledged mutes: a newer command takes its
\* flow's away, and nothing else waits for a flow that keeps it.
Wanes ==
  /\ muted' \subseteq muted /\ crossed' = crossed
  /\ \A m \in muted' : m[1] \in FlowSet /\ asked.lane[MuteLane(m[1])] = None =>
                         asked'.lane[MuteLane(m[1])] = None
  /\ \/ at' = at /\ ranProfile' = ranProfile
     \/ at = "idle" /\ at' \in {"idle", "queued"}

LEMMA MuteLaneOf == ASSUME NEW f \in FlowSet PROVE MuteLane(f) \in Lanes /\ MuteLane(f).op = "switch" /\ MuteLane(f).dev = f
BY FlowsAreDevices DEF MuteLane, Lanes

LEMMA ScheduleLanes ==
  ASSUME NEW b \in BOOLEAN, NEW q, Schedule(b, q), NEW l \in Lanes, q.lane[l] = None
  PROVE  asked'.lane[l] = None
BY DEF Schedule, Nothing, NoLanes

LEMMA ScheduleRuns ==
  ASSUME NEW q, Schedule(InFlight, q)
  PROVE  \/ at' = at /\ ranProfile' = ranProfile
         \/ at = "idle" /\ at' \in {"idle", "queued"}
BY DEF Schedule, InFlight

LEMMA SubmitWanes ==
  ASSUME TypeOK, NEW l \in Lanes, NEW field, NEW v, NEW rev, Submit(l, field, v, rev)
  PROVE  Wanes
<1> DEFINE c == [field |-> field, v |-> v, rev |-> rev, follow |-> asked.busy]
           q == [asked EXCEPT !.lane[l] = c]
<1>1. /\ Schedule(InFlight, q) /\ crossed' = crossed
      /\ muted' = IF l.op = "switch" THEN {m \in muted : m[1] # l.dev} ELSE muted
  BY DEF Submit, OnUi
<1>2. AskedTyped(asked)
  BY TypeParts
<1> HIDE DEF c
<1>3. \A k \in Lanes \ {l} : q.lane[k] = asked.lane[k]
  BY <1>2 DEF AskedTyped
<1> HIDE DEF q
<1>4. ASSUME NEW m \in muted', m[1] \in FlowSet, asked.lane[MuteLane(m[1])] = None
      PROVE  asked'.lane[MuteLane(m[1])] = None
  <2>1. MuteLane(m[1]) \in Lanes /\ MuteLane(m[1]) # l
    BY <1>1, <1>4, MuteLaneOf
  <2>2. q.lane[MuteLane(m[1])] = None
    BY <1>3, <1>4, <2>1
  <2> QED BY <1>1, <2>1, <2>2, ScheduleLanes DEF InFlight
<1> QED BY <1>1, <1>4, ScheduleRuns DEF Wanes

\* A request that leaves the switches alone takes no mute away.
LEMMA RequestWanes ==
  ASSUME NEW q, \A f \in FlowSet : q.lane[MuteLane(f)] = asked.lane[MuteLane(f)],
         Schedule(InFlight, q), muted' = muted, crossed' = crossed
  PROVE  Wanes
<1>1. ASSUME NEW f \in FlowSet, asked.lane[MuteLane(f)] = None PROVE asked'.lane[MuteLane(f)] = None
  <2>1. q.lane[MuteLane(f)] = None /\ MuteLane(f) \in Lanes
    BY <1>1, MuteLaneOf
  <2> QED BY <2>1, ScheduleLanes DEF InFlight
<1> QED BY <1>1, ScheduleRuns DEF Wanes

LEMMA UiWanes == ASSUME TypeOK, User \/ Prepare \/ Changed PROVE Wanes
<1>1. AskedTyped(asked)
  BY TypeParts
<1>2. ASSUME NEW f \in FlowSet, Toggle(f) PROVE Wanes
  <2>1. MuteLane(f) \in Lanes
    BY MuteLaneOf
  <2> QED BY <1>2, <2>1, SubmitWanes DEF Toggle, MuteLane
<1>3. ASSUME NEW f \in FlowSet, NEW v \in Levels, Slide(f, v) PROVE Wanes
  <2>1. [op |-> "level", dev |-> f] \in Lanes
    BY DEF Lanes
  <2> QED BY <1>3, <2>1, SubmitWanes DEF Slide
<1>4. CASE ToggleCamera
  <2>1. MuteLane("camera") \in Lanes
    BY DEF Lanes, Devices, MuteLane
  <2> QED BY <1>4, <2>1, SubmitWanes DEF ToggleCamera, MuteLane
<1>5. ASSUME NEW p \in Profiles, SubmitProfile(p) PROVE Wanes
  <2> DEFINE q == [asked EXCEPT !.profile = p, !.busy = TRUE,
                     !.lane = [l \in Lanes |-> IF l.op = "level" THEN None ELSE @[l]]]
  <2>1. Schedule(InFlight, q) /\ muted' = muted /\ crossed' = crossed
    BY <1>5 DEF SubmitProfile, OnUi
  <2>2. q.lane = [l \in Lanes |-> IF l.op = "level" THEN None ELSE asked.lane[l]]
    BY <1>1 DEF AskedTyped
  <2> HIDE DEF q
  <2>3. \A f \in FlowSet : q.lane[MuteLane(f)] = asked.lane[MuteLane(f)]
    BY <2>2, MuteLaneOf
  <2> QED BY <2>1, <2>3, RequestWanes
<1>6. CASE SetSubscriberVisible
  <2>1. CASE visible
    <3> DEFINE q == [asked EXCEPT !.observe = FALSE, !.stop = TRUE]
    <3>1. Schedule(InFlight, q) /\ muted' = muted /\ crossed' = crossed
      BY <1>6, <2>1 DEF SetSubscriberVisible, OnUi
    <3>2. q.lane = asked.lane
      BY <1>1 DEF AskedTyped
    <3> HIDE DEF q
    <3> QED BY <3>1, <3>2, RequestWanes
  <2>2. CASE ~visible
    BY <1>6, <2>2 DEF SetSubscriberVisible, OnUi, Wanes
  <2> QED BY <2>1, <2>2
<1>7. CASE Prepare
  <2> DEFINE q == [asked EXCEPT !.observe = TRUE, !.stop = FALSE]
  <2>1. Schedule(InFlight, q) /\ muted' = muted /\ crossed' = crossed
    BY <1>7 DEF Prepare, OnUi
  <2>2. q.lane = asked.lane
    BY <1>1 DEF AskedTyped
  <2> HIDE DEF q
  <2> QED BY <2>1, <2>2, RequestWanes
<1>8. CASE Changed
  BY <1>8 DEF Changed, Wanes, txVars, runVars
<1> QED BY <1>2, <1>3, <1>4, <1>5, <1>6, <1>7, <1>8 DEF User

\* A step of the transaction, or of the helper while nothing is asked for.
TxStep == Preflight \/ RunStage \/ StageAnswered \/ Compensate \/ Compensated
HelperMoves == Compare \/ Mutate \/ Refuse \/ ReadBack \/ ReadBackFails \/ Suspend \/ Lose \/ Crash

LEMMA MuteSteps ==
  ASSUME Inv1, [Next]_vars
  PROVE  \/ Unmoved /\ Wanes
         \/ Complete
         \/ (\E l \in Lanes : RunCommand(l)) \/ RunProfile \/ ApplyProfile \/ RunObserve
         \/ Followed \/ Answered \/ Suspended \/ ProfileDone
         \/ TxStep /\ UNCHANGED outside
         \/ HelperMoves /\ HelperQuiet /\ UNCHANGED outside
         \/ Elsewhen
<1> TypeOK /\ ControlInv
  BY DEF Inv1
<1>1. CASE UNCHANGED vars
  BY <1>1 DEF vars, helperVars, world, link, histories, txVars, uiVars, runVars, Unmoved, Queues, Wanes
<1>2. CASE User \/ Prepare \/ Changed
  BY <1>2, UiStep, UiWanes DEF Still, Unmoved
<1>3. CASE TimePasses /\ UNCHANGED outside
  BY <1>3, TimeFrame DEF HelperQuiet, Unmoved, Queues, Wanes, outside, runVars
<1>4. CASE HelperStep /\ UNCHANGED <<published, time, txVars, outside>>
  BY <1>4, HelperFrame DEF HelperStep, HelperMoves
<1>5. CASE Crash /\ UNCHANGED <<published, time, txVars, outside>>
  BY <1>5, HelperFrame DEF HelperMoves
<1> QED BY <1>1, <1>2, <1>3, <1>4, <1>5, NextSteps DEF TxStep

\* What each kind of step leaves alone of the runs and the acknowledged mutes.
LEMMA OutsideRuns ==
  ASSUME UNCHANGED outside
  PROVE  UNCHANGED <<asked, running, role, ranProfile, muted, crossed>>
BY DEF outside, runVars

LEMMA WorkerRuns ==
  ASSUME Followed \/ Answered \/ Suspended \/ ProfileDone
  PROVE  UNCHANGED <<gone, who, seen, blind, was, asked, ranProfile, muted, crossed, profile>>
BY DEF Followed, Answered, Suspended, ProfileDone, Worker, histories

LEMMA TakeRuns ==
  ASSUME (\E l \in Lanes : RunCommand(l)) \/ RunProfile \/ ApplyProfile \/ RunObserve
  PROVE  UNCHANGED <<gone, seen, role, muted, answer>> /\ (crossed => crossed')
<1>1. ASSUME NEW l \in Lanes, RunCommand(l)
      PROVE  UNCHANGED <<gone, seen, role, muted, answer, crossed>>
  BY <1>1 DEF RunCommand, Take
<1>2. CASE RunProfile
  <2>1. UNCHANGED <<gone, seen, role, muted, answer>>
    BY <1>2 DEF RunProfile, Take
  <2>2. crossed => crossed'
    BY <1>2, Zenon DEF RunProfile
  <2> QED BY <2>1, <2>2
<1>3. CASE RunObserve
  BY <1>3 DEF RunObserve, Take
<1>4. CASE ApplyProfile
  <2>1. UNCHANGED <<gone, seen, role, muted, answer, crossed>>
    BY <1>4 DEF ApplyProfile, runVars
  <2> QED BY <2>1, Zenon
<1> QED BY <1>1, <1>2, <1>3, <1>4

LEMMA TxRuns ==
  ASSUME TypeOK, ControlInv, TxStep
  PROVE  /\ at \in {"first", "stage", "rollback"} /\ at' \in {"stage", "rollback", "done"}
         /\ at' = "stage" => outcome'.whole = outcome.whole /\ at # "rollback"
         /\ outcome'.whole => outcome.whole
         /\ answer' = "none" /\ TxQuiet /\ call = None
<1>1. CASE Preflight
  BY <1>1, PreflightStep
<1>2. CASE RunStage
  BY <1>2, RunStageStep DEF RunStageSkips, RunStageAborts, RunStageSends, RunStageReads
<1>3. CASE StageAnswered
  BY <1>3, StageAnsweredStep DEF StageApplied, StageMismatched, StageSucceeded, StageFailed
<1>4. CASE Compensate
  BY <1>4, CompensateStep, OutcomeFields DEF CompensateEnds, CompensateSends, CompensateSkips
<1>5. CASE Compensated
  BY <1>5, CompensatedStep
<1> QED BY <1>1, <1>2, <1>3, <1>4, <1>5 DEF TxStep

-----------------------------------------------------------------------------
(* What a run is about                                                      *)

\* A profile runs no command, and a stage begins with nothing in doubt.
RunInv ==
  /\ InTransaction => ranProfile
  /\ at = "taken" => ranProfile /\ running = None /\ outcome.whole /\ blind = {}
  /\ at \in {"observe", "suspend", "first", "stage", "rollback", "done"} => running = None
  /\ running # None => running.field[1] # "route"
  /\ at \in {"first", "stage"} => outcome.whole

LEMMA LaneCommand ==
  ASSUME TypeOK, NEW l \in Lanes, asked.lane[l] # None
  PROVE  /\ LaneTyped(l, asked.lane[l]) /\ asked.lane[l].field \in Fields
         /\ asked.lane[l].field[1] # "route"
         /\ asked.lane[l].field[1] = "mute" => l = MuteLane(asked.lane[l].field[2])
<1>1. LaneTyped(l, asked.lane[l])
  BY TypeParts DEF AskedTyped
<1>2. l = [op |-> l.op, dev |-> l.dev]
  BY DEF Lanes
<1> QED BY <1>1, <1>2, LaneKinds DEF LaneTyped, CommandTyped, Commands, MuteLane

LEMMA RunNext == ASSUME Inv1, RunInv, [Next]_vars PROVE RunInv'
<1> TypeOK /\ ControlInv
  BY DEF Inv1
<1>1. CASE Unmoved /\ Wanes
  BY <1>1 DEF Unmoved, Queues, Wanes, RunInv, InTransaction
<1>2. CASE Complete
  <2>1. at' \in {"idle", "queued"} /\ running' = None
    BY <1>2, CompleteStep
  <2> QED BY <2>1 DEF RunInv, InTransaction
<1>3. ASSUME NEW l \in Lanes, RunCommand(l) PROVE RunInv'
  <2>1. /\ running' = asked.lane[l] /\ asked.lane[l] # None /\ at' \in {"finished", "suspended", "follow", "command"}
    BY <1>3, RunCommandStep
  <2> QED BY <2>1, LaneCommand DEF RunInv, InTransaction
<1>4. CASE RunProfile
  <2>1. running' = None /\ ranProfile' = TRUE /\ at' = "taken" /\ outcome' = NoOutcome /\ blind' = {}
    BY <1>4, RunProfileStep DEF RunProfile, Begun
  <2> QED BY <2>1, NoOutcomeFacts DEF RunInv, InTransaction
<1>11. CASE ApplyProfile
  <2>1. /\ at = "taken" /\ at' \in {"finished", "first"} /\ running' = running /\ ranProfile' = ranProfile
    BY <1>11, ApplyProfileStep
  <2>2. at' = "first" => outcome' = NoOutcome
    <3>1. NotRun => at' = "finished"
      BY DEF NotRun
    <3> QED BY <1>11, <3>1 DEF ApplyProfile, Begin
  <2> QED BY <2>1, <2>2, NoOutcomeFacts DEF RunInv, InTransaction
<1>5. CASE RunObserve
  BY <1>5, RunObserveStep DEF RunInv, InTransaction
<1>6. CASE Followed
  <2>1. running # None /\ CommandTyped(running) /\ running.follow /\ at' \in {"command", "finished", "suspended"}
    BY <1>6, FollowedStep
  <2>2. running'.field[1] # "route"
    BY <1>6, <2>1, FollowedStep, MuteName, CameraName DEF RunInv
  <2> QED BY <2>1, <2>2 DEF RunInv, InTransaction
<1>7. CASE Answered \/ Suspended \/ ProfileDone
  <2>1. at' \in {"finished", "suspended"} /\ running' = running
    BY <1>7, AnsweredStep, ProfileDoneStep
  <2> QED BY <2>1 DEF RunInv, InTransaction
<1>8. CASE TxStep /\ UNCHANGED outside
  BY <1>8, OutsideRuns, TxRuns DEF RunInv, InTransaction
<1>9. CASE HelperMoves /\ HelperQuiet /\ UNCHANGED outside
  <2>1. at = "taken" => blind' = blind
    <3>1. at = "taken" => call = None
      BY DEF ControlInv
    <3>2. call = None => Crash
      BY <1>9, CompareStep, MutateStep, RefuseStep, ReadBackStep, ReadBackFailsStep, SuspendStep, LoseStep
      DEF HelperMoves
    <3> QED BY <3>1, <3>2, CrashStep
  <2> QED BY <1>9, <2>1, OutsideRuns DEF HelperQuiet, RunInv, InTransaction
<1>10. CASE Elsewhen
  <2>1. UNCHANGED <<at, running, ranProfile, outcome>> /\ blind' = blind
    BY <1>10, ElsewhenStep, WorldStep DEF HelperQuiet, Disturbed
  <2> QED BY <2>1 DEF RunInv, InTransaction
<1> QED BY <1>1, <1>2, <1>3, <1>4, <1>5, <1>6, <1>7, <1>8, <1>9, <1>10, <1>11, MuteSteps

-----------------------------------------------------------------------------
(* Whose last word a mute is                                                *)

\* Nothing newer waits or runs for the flow, and nobody else changed it; unless
\* a profile for another role began, it is the controlled role's.
LastWord(m) ==
  /\ m[1] \in FlowSet /\ m[2] \in RoleSet
  /\ asked.lane[MuteLane(m[1])] = None
  /\ running # None /\ running.field[1] = "mute" => running.field[2] # m[1]
  /\ \A x \in Fields : x[2] = m[1] => who[x] # "other"
  /\ ~crossed => m[2] = role /\ (at = "taken" \/ InTransaction => profile.first = role)

MutedInv == \A m \in muted : LastWord(m)

\* A mute that is acknowledged now.
Acknowledges(m) ==
  /\ running # None /\ outcome.result = "ok"
  /\ running.field[1] = "mute" /\ running.v = TRUE
  /\ m = <<running.field[2], role>>
  /\ asked.lane[MuteLane(running.field[2])] = None
  /\ running.follow \/ seen.hw[Route(running.field[2], role)].v = running.field[3]
  /\ \A x \in Fields : x[2] = running.field[2] => who[x] # "other"

LEMMA CompleteMuted ==
  ASSUME TypeOK, Complete
  PROVE  /\ \A m \in muted' : m \in muted \/ Acknowledges(m)
         /\ ranProfile /\ (~outcome.whole \/ blind # {}) => muted' = {}
         /\ ~crossed' => ~crossed \/ muted' = {}
         /\ \A f \in FlowSet : asked.lane[MuteLane(f)] = None => asked'.lane[MuteLane(f)] = None
<1>1. muted' = Acknowledged /\ Schedule(FALSE, [asked EXCEPT !.busy = StillBusy])
  BY DEF Complete
<1>2. ~crossed' => ~crossed \/ muted' = {}
  <2>1. crossed' = (crossed /\ muted' # {})
    BY DEF Complete
  <2> QED BY <2>1, Zenon
<1>3. ranProfile /\ (~outcome.whole \/ blind # {}) => muted' = {}
  BY <1>1 DEF Acknowledged
<1>4. ASSUME NEW m \in muted' PROVE m \in muted \/ Acknowledges(m)
  <2>1. running # None /\ running.field[1] = "mute" => (running.v = TRUE <=> running.v)
    <3>1. running # None => CommandTyped(running)
      BY TypeParts
    <3>2. ASSUME NEW v \in BOOLEAN PROVE v = TRUE <=> v
      OBVIOUS
    <3> QED BY <3>1, <3>2, ValuesOf DEF CommandTyped
  <2> QED BY <1>1, <1>4, <2>1, Zenon DEF Acknowledged, Acknowledges, MuteLane
<1>5. ASSUME NEW f \in FlowSet, asked.lane[MuteLane(f)] = None PROVE asked'.lane[MuteLane(f)] = None
  <2> DEFINE q == [asked EXCEPT !.busy = StillBusy]
  <2>1. q.lane = asked.lane
    BY TypeParts DEF AskedTyped
  <2>2. Schedule(FALSE, q)
    BY <1>1
  <2> HIDE DEF q
  <2> QED BY <1>5, <2>1, <2>2, MuteLaneOf, ScheduleLanes
<1> QED BY <1>2, <1>3, <1>4, <1>5

LEMMA MutedComplete == ASSUME Inv1, MutedInv, Complete PROVE MutedInv'
<1> TypeOK /\ ControlInv
  BY DEF Inv1
<1>1. /\ at' \in {"idle", "queued"} /\ running' = None /\ role' = role
      /\ who' = [x \in Fields |-> "none"]
  BY CompleteStep
<1>2. ~InTransaction' /\ at' # "taken"
  BY <1>1 DEF InTransaction
<1>3. ASSUME NEW m \in muted' PROVE LastWord(m)'
  <2>1. CASE m \in muted
    <3>1. LastWord(m)
      BY <2>1 DEF MutedInv
    <3>2. ~crossed' => ~crossed
      BY <1>3, CompleteMuted
    <3> QED BY <1>1, <1>2, <3>1, <3>2, CompleteMuted DEF LastWord
  <2>2. CASE Acknowledges(m)
    <3>1. m[1] = running.field[2] /\ m[2] = role /\ role \in RoleSet /\ running # None
          /\ running.field[1] = "mute" /\ asked.lane[MuteLane(m[1])] = None
      BY <2>2, TypeParts DEF Acknowledges
    <3>2. m[1] \in FlowSet
      BY <3>1, TypeParts, FieldKinds DEF CommandTyped, Commands
    <3> QED BY <1>1, <1>2, <3>1, <3>2, CompleteMuted DEF LastWord
  <2> QED BY <1>3, <2>1, <2>2, CompleteMuted
<1> QED BY <1>3 DEF MutedInv

LEMMA MutedTaken ==
  ASSUME Inv1, MutedInv, (\E l \in Lanes : RunCommand(l)) \/ RunProfile \/ ApplyProfile \/ RunObserve
  PROVE  MutedInv'
<1> TypeOK /\ ControlInv
  BY DEF Inv1
<1>1. /\ Begun /\ muted' = muted /\ role' = role /\ (crossed => crossed')
      /\ \A x \in Fields : who'[x] # "other"
  BY Inv1Take, TakeRuns DEF Begun
<1>2. SUFFICES ASSUME NEW m \in muted PROVE LastWord(m)'
  BY <1>1 DEF MutedInv
<1>3. LastWord(m)
  BY DEF MutedInv
<1>4. MuteLane(m[1]) \in Lanes
  BY <1>3, MuteLaneOf DEF LastWord
<1>5. ASSUME NEW l \in Lanes, RunCommand(l) PROVE LastWord(m)'
  <2>1. /\ running' = asked.lane[l] /\ asked.lane[l] # None /\ at' \in {"finished", "suspended", "follow", "command"}
        /\ asked' = [asked EXCEPT !.lane[l] = None]
    BY <1>5, RunCommandStep DEF RunCommand, Take
  <2>2. asked'.lane[MuteLane(m[1])] = None
    <3>1. asked'.lane = [asked.lane EXCEPT ![l] = None]
      BY <2>1, TypeParts DEF AskedTyped
    <3> QED BY <1>3, <1>4, <3>1, TypeParts DEF AskedTyped, LastWord
  <2>3. running'.field[1] = "mute" => running'.field[2] # m[1]
    BY <1>3, <2>1, LaneCommand DEF LastWord
  <2>4. ~InTransaction' /\ at' # "taken"
    BY <2>1 DEF InTransaction
  <2> QED BY <1>1, <1>3, <2>2, <2>3, <2>4 DEF LastWord
<1>6. CASE RunProfile
  <2>1. running' = None /\ asked' = [asked EXCEPT !.profile = None] /\ at' = "taken" /\ profile' = asked.profile
    BY <1>6, RunProfileStep
  <2>2. asked'.lane = asked.lane
    BY <2>1, TypeParts DEF AskedTyped
  <2>3. ~crossed' => asked.profile.first = role
    <3>1. crossed' = (crossed \/ (muted # {} /\ asked.profile.first # role)) /\ muted # {}
      BY <1>2, <1>6 DEF RunProfile
    <3> QED BY <3>1, Zenon
  <2> QED BY <1>1, <1>3, <2>1, <2>2, <2>3 DEF LastWord, InTransaction
<1>8. CASE ApplyProfile
  <2>1. at = "taken" /\ UNCHANGED <<asked, running, profile>>
    BY <1>8, ApplyProfileStep
  <2>2. crossed' = crossed
    BY <1>8 DEF ApplyProfile
  <2> QED BY <1>1, <1>3, <2>1, <2>2 DEF LastWord
<1>7. CASE RunObserve
  <2>1. /\ running' = None /\ asked' = [asked EXCEPT !.observe = FALSE, !.stop = FALSE]
        /\ at' \in {"finished", "suspended", "observe", "suspend"}
    BY <1>7, RunObserveStep DEF RunObserve, Take
  <2>2. asked'.lane = asked.lane
    BY <2>1, TypeParts DEF AskedTyped
  <2> QED BY <1>1, <1>3, <2>1, <2>2 DEF LastWord, InTransaction
<1> QED BY <1>5, <1>6, <1>7, <1>8

\* What somebody else's change leaves a mute, it leaves as it was.
LEMMA KeptElsewhen ==
  ASSUME Inv1, Elsewhen, NEW m \in muted'
  PROVE  /\ m \in muted /\ gone' = gone /\ UNCHANGED <<call, answer, seen, was, blind>>
         /\ \A x \in Fields : x[2] = m[1] => hw'[x] = hw[x] /\ who'[x] = who[x]
<1>1. Disturbed
  BY ElsewhenStep, WorldStep DEF Inv1
<1>2. m \in muted /\ gone' = gone /\ \A x \in Fields : x[2] = m[1] => hw'[x] = hw[x]
  BY ElsewhenStep
<1>3. ASSUME NEW x \in Fields, x[2] = m[1] PROVE who'[x] = who[x]
  <2>1. hw[x].rev \in Nat /\ hw'[x] = hw[x]
    BY <1>2, <1>3, OwnedFields
  <2> QED BY <1>1, <2>1 DEF Disturbed
<1> QED BY <1>1, <1>2, <1>3 DEF Disturbed

\* The helper writes, but it is not somebody else.
LEMMA HelperWrites ==
  ASSUME TypeOK, HelperMoves
  PROVE  /\ gone' = gone
         /\ \A x \in Fields : who'[x] = who[x] \/ who'[x] = "redxe"
         /\ ~Mutate => /\ who' = who /\ blind \subseteq blind'
                       /\ \A x \in Fields \ {Camera} : hw'[x] = hw[x]
         /\ ~Compare => was' = was
<1>1. CASE Mutate
  BY <1>1, MutateStep
<1>2. CASE Compare \/ Refuse \/ ReadBack \/ ReadBackFails \/ Suspend
  BY <1>2, CompareStep, RefuseStep, ReadBackStep, ReadBackFailsStep, SuspendStep
<1>3. CASE Lose \/ Crash
  <2>1. Faded /\ UNCHANGED <<gone, who, was, blind>>
    BY <1>3, LoseStep, CrashStep
  <2> QED BY <1>3, <2>1 DEF Faded, Lose, Mutate
<1> QED BY <1>1, <1>2, <1>3 DEF HelperMoves

LEMMA MutedNext == ASSUME Inv1, RunInv, MutedInv, [Next]_vars PROVE MutedInv'
<1> TypeOK /\ ControlInv
  BY DEF Inv1
<1>1. CASE Unmoved /\ Wanes
  <2>1. SUFFICES ASSUME NEW m \in muted' PROVE LastWord(m)'
    BY DEF MutedInv
  <2>2. m \in muted /\ LastWord(m)
    BY <1>1, <2>1 DEF Wanes, MutedInv
  <2> QED BY <1>1, <2>1, <2>2 DEF Unmoved, Queues, Wanes, LastWord, InTransaction
<1>2. CASE Followed \/ Answered \/ Suspended \/ ProfileDone
  <2>1. SUFFICES ASSUME NEW m \in muted PROVE LastWord(m)'
    BY <1>2, WorkerRuns DEF MutedInv
  <2>2. LastWord(m) /\ UNCHANGED <<who, asked, crossed>>
    BY <1>2, <2>1, WorkerRuns DEF MutedInv
  <2>3. at' \in {"command", "finished", "suspended"}
    BY <1>2, FollowedStep, AnsweredStep, ProfileDoneStep
  <2>4. running' # None /\ running'.field[1] = "mute" => running'.field[2] # m[1]
    <3>1. CASE Followed
      <4>1. running # None /\ CommandTyped(running) /\ running.follow
        BY <3>1, FollowedStep
      <4>2. running.field \in Fields /\ running.field[1] \in {"mute", "camera"} /\ m[1] # "camera"
        BY <2>2, <4>1, FlowsAreDevices DEF CommandTyped, Commands, LastWord
      <4>3. running.field[1] = "mute" \/ running.field[2] # m[1]
        BY <4>2, FieldKinds
      <4>4. running.field[2] # m[1]
        BY <2>2, <4>1, <4>3 DEF LastWord
      <4>5. running'.field[2] = running.field[2] \/ running' = running
        BY <3>1, FollowedStep
      <4> QED BY <4>4, <4>5
    <3>2. CASE Answered \/ Suspended \/ ProfileDone
      <4>1. running' = running
        BY <3>2, AnsweredStep, ProfileDoneStep
      <4> QED BY <2>2, <4>1 DEF LastWord
    <3> QED BY <1>2, <3>1, <3>2
  <2>5. ~crossed => m[2] = role'
    <3>1. CASE ProfileDone
      <4>1. role' = (IF outcome.applied THEN profile.first ELSE role) /\ InTransaction
        BY <3>1, ProfileDoneStep DEF InTransaction
      <4> QED BY <2>2, <4>1 DEF LastWord
    <3>2. CASE Followed \/ Answered \/ Suspended
      <4>1. role' = role
        BY <3>2, FollowedStep, AnsweredStep
      <4> QED BY <2>2, <4>1 DEF LastWord
    <3> QED BY <1>2, <3>1, <3>2
  <2> QED BY <2>2, <2>3, <2>4, <2>5 DEF LastWord, InTransaction
<1>3. CASE TxStep /\ UNCHANGED outside
  <2>1. UNCHANGED <<who, profile, asked, running, role, muted, crossed>> /\ InTransaction
    BY <1>3, TxRuns, OutsideRuns DEF TxQuiet, InTransaction
  <2>2. ASSUME NEW m \in muted PROVE LastWord(m)'
    <3>1. LastWord(m)
      BY <2>2 DEF MutedInv
    <3> QED BY <2>1, <3>1 DEF LastWord
  <2> QED BY <2>1, <2>2 DEF MutedInv
<1>4. CASE HelperMoves /\ HelperQuiet /\ UNCHANGED outside
  <2>1. UNCHANGED <<at, profile, asked, running, role, muted, crossed>>
    BY <1>4, OutsideRuns DEF HelperQuiet
  <2>2. ASSUME NEW m \in muted PROVE LastWord(m)'
    <3>1. LastWord(m)
      BY <2>2 DEF MutedInv
    <3>2. \A x \in Fields : x[2] = m[1] => who'[x] # "other"
      BY <1>4, <3>1, HelperWrites DEF LastWord
    <3>3. InTransaction' = InTransaction
      BY <2>1 DEF InTransaction
    <3> QED BY <2>1, <3>1, <3>2, <3>3 DEF LastWord
  <2> QED BY <2>1, <2>2 DEF MutedInv
<1>5. CASE Elsewhen
  <2>1. UNCHANGED <<at, profile, asked, running, role, crossed>>
    BY <1>5, ElsewhenStep DEF HelperQuiet
  <2>2. ASSUME NEW m \in muted' PROVE LastWord(m)'
    <3>1. LastWord(m)
      BY <1>5, <2>2, KeptElsewhen DEF MutedInv
    <3>2. \A x \in Fields : x[2] = m[1] => who'[x] # "other"
      BY <1>5, <2>2, <3>1, KeptElsewhen DEF LastWord
    <3>3. InTransaction' = InTransaction
      BY <2>1 DEF InTransaction
    <3> QED BY <2>1, <3>1, <3>2, <3>3 DEF LastWord
  <2> QED BY <2>2 DEF MutedInv
<1> QED BY <1>1, <1>2, <1>3, <1>4, <1>5, MutedComplete, MutedTaken, MuteSteps

-----------------------------------------------------------------------------
(* What an acknowledged mute has set                                        *)

\* The reply buffer is what the devices are set to, but for others' changes.
SeenCurrent == \A x \in Fields \ {Camera} : InForce(x, seen.hw[x].v)

Acknowledging == (at = "command" /\ answer = "ok") \/ (at \in {"finished", "suspended"} /\ outcome.result = "ok")
Following == (at = "command" \/ (at \in {"finished", "suspended"} /\ outcome.result = "ok")) /\ running.follow

\* A mute that succeeded is in force, and one that follows a profile is for the
\* endpoint the controlled role leads to.
AckInv ==
  /\ at = "follow" /\ answer = "ok" => SeenCurrent
  /\ running # None /\ running.field[1] = "mute" =>
       /\ Acknowledging => InForce(running.field, running.v) /\ SeenCurrent
       /\ Following => InForce(Route(running.field[2], role), running.field[3])

LEMMA SeenCurrentStays ==
  ASSUME SeenCurrent, seen' = seen, \A x \in Fields \ {Camera} : Steady(x)
  PROVE  SeenCurrent'
<1> SUFFICES ASSUME NEW x \in Fields \ {Camera} PROVE hw'[x].v = seen.hw[x].v \/ who'[x] = "other"
  BY DEF SeenCurrent, InForce
<1>1. InForce(x, seen.hw[x].v) /\ Steady(x)
  BY DEF SeenCurrent
<1> QED BY <1>1, SteadyInForce

\* A mute's field, and the route it may follow.
LEMMA RunningMute ==
  ASSUME TypeOK, running # None, running.field[1] = "mute"
  PROVE  /\ running.field \in Fields \ {Camera} /\ running.field[2] \in FlowSet
         /\ running.field[3] \in Endpoints /\ running.field = Mute(running.field[2], running.field[3])
         /\ Route(running.field[2], role) \in Fields \ {Camera}
         /\ Route(running.field[2], role) # running.field
<1>1. running.field \in Fields /\ role \in RoleSet
  BY TypeParts DEF CommandTyped, Commands
<1>2. /\ running.field[2] \in FlowSet /\ running.field[3] \in Endpoints
      /\ running.field = Mute(running.field[2], running.field[3])
  BY <1>1, FieldKinds
<1> DEFINE r == Route(running.field[2], role)
<1>3. r \in Fields /\ r[1] = "route"
  BY <1>1, <1>2, FieldMembers, RouteName
<1> QED BY <1>1, <1>2, <1>3, CameraName

\* While nothing but others and the camera's end change the devices.
LEMMA AckSteady ==
  ASSUME TypeOK, AckInv, UNCHANGED <<at, answer, seen, running, role, outcome>>,
         \A x \in Fields \ {Camera} : Steady(x)
  PROVE  AckInv'
<1>1. SeenCurrent => SeenCurrent'
  BY SeenCurrentStays
<1>2. running # None /\ running.field[1] = "mute" =>
        /\ InForce(running.field, running.v) => InForce(running.field, running.v)'
        /\ InForce(Route(running.field[2], role), running.field[3]) =>
             InForce(Route(running.field[2], role), running.field[3])'
  <2>1. SUFFICES ASSUME running # None, running.field[1] = "mute"
                 PROVE  /\ InForce(running.field, running.v) => InForce(running.field, running.v)'
                        /\ InForce(Route(running.field[2], role), running.field[3]) =>
                             InForce(Route(running.field[2], role), running.field[3])'
    OBVIOUS
  <2>2. Steady(running.field) /\ Steady(Route(running.field[2], role))
    BY <2>1, RunningMute
  <2> QED BY <2>2 DEF InForce, Steady
<1> QED BY <1>1, <1>2 DEF AckInv, Acknowledging, Following

LEMMA AckHelper ==
  ASSUME Inv1, AppliedInv, AckInv, HelperMoves, HelperQuiet, UNCHANGED outside
  PROVE  AckInv'
<1> TypeOK /\ ControlInv
  BY DEF Inv1
<1>1. UNCHANGED <<at, running, role, outcome>>
  BY OutsideRuns DEF HelperQuiet
<1>2. CASE Crash
  <2>1. UNCHANGED <<answer, seen>> /\ ~Mutate
    BY <1>2, CrashStep, MutateStep
  <2>2. \A x \in Fields \ {Camera} : Steady(x)
    BY <1>2, <2>1, HelperSteady
  <2> QED BY <1>1, <2>1, <2>2, AckSteady
<1>3. CASE ~Crash
  <2>1. call # None /\ CallTyped(call)
    BY <1>3, CompareStep, MutateStep, RefuseStep, ReadBackStep, ReadBackFailsStep, SuspendStep, LoseStep
    DEF HelperMoves
  <2>2. at \notin {"finished", "suspended"} /\ (at = "follow" => call.op = "observe")
        /\ (at = "command" => call.op = "set" /\ call.field = running.field /\ call.v = running.v)
    BY <2>1 DEF ControlInv
  <2>3. SUFFICES ASSUME at \in {"follow", "command"} PROVE AckInv'
    BY <1>1, <2>2 DEF AckInv, Acknowledging, Following
  <2>4. Compare \/ Mutate \/ Refuse \/ ReadBack \/ ReadBackFails \/ Lose
    BY <1>3, <2>2, <2>3, SuspendStep DEF HelperMoves
  <2>5. answer' = "ok" => ReadBack
    <3>1. answer = "none"
      BY <2>1 DEF ControlInv
    <3> QED BY <2>4, <3>1, CompareStep, MutateStep, RefuseStep, ReadBackFailsStep, LoseStep
  <2>6. answer' = "ok" => SeenCurrent'
    BY <2>5, ReadBackStep DEF SeenCurrent, InForce
  <2>7. at = "command" /\ answer' = "ok" => InForce(running.field, running.v)'
    <3>1. SUFFICES ASSUME at = "command", ReadBack, answer' = "ok"
                   PROVE  hw'[running.field].v = running.v \/ who'[running.field] = "other"
      BY <1>1, <2>5 DEF InForce
    <3>2. call.stage = "changed" /\ UNCHANGED <<hw, who>>
      BY <2>1, <2>2, <3>1, ReadBackStep, CallFields
    <3>3. InForce(call.field, call.v)
      BY <2>1, <3>2 DEF AppliedInv
    <3> QED BY <2>2, <3>1, <3>2, <3>3 DEF InForce
  <2>8. ASSUME at = "command", running # None, running.field[1] = "mute", running.follow
        PROVE  InForce(Route(running.field[2], role), running.field[3])'
    <3>1. InForce(Route(running.field[2], role), running.field[3])
      BY <2>8 DEF AckInv, Following
    <3>2. Route(running.field[2], role) \in Fields \ {Camera} /\ (Mutate => Route(running.field[2], role) # call.field)
      BY <2>2, <2>8, RunningMute
    <3>3. Steady(Route(running.field[2], role))
      BY <2>4, <3>2, HelperSteady
    <3> QED BY <1>1, <3>1, <3>3 DEF InForce, Steady
  <2> QED BY <1>1, <2>2, <2>6, <2>7, <2>8 DEF AckInv, Acknowledging, Following
<1> QED BY <1>2, <1>3

LEMMA AckNext == ASSUME Inv1, AppliedInv, RunInv, AckInv, [Next]_vars PROVE AckInv'
<1> TypeOK /\ ControlInv
  BY DEF Inv1
<1>1. CASE Unmoved /\ Wanes
  <2>1. CASE at' = at
    <3>1. \A x : Steady(x)
      BY <1>1 DEF Unmoved, Steady
    <3> QED BY <1>1, <2>1, <3>1, AckSteady DEF Unmoved
  <2>2. CASE at' = "queued"
    BY <2>2 DEF AckInv, Acknowledging, Following
  <2> QED BY <1>1, <2>1, <2>2 DEF Unmoved, Queues
<1>2. CASE Complete
  <2>1. at' \in {"idle", "queued"}
    BY <1>2, CompleteStep
  <2> QED BY <2>1 DEF AckInv, Acknowledging, Following
<1>3. ASSUME NEW l \in Lanes, RunCommand(l) PROVE AckInv'
  <2>1. at = "queued" /\ answer = "none" /\ answer' = answer /\ running' = asked.lane[l]
    BY <1>3, TakeRuns, RunCommandStep DEF RunCommand, Take, ControlInv
  <2>2. \/ at' \in {"finished", "suspended"} /\ outcome'.result = "lost"
        \/ at' = "follow"
        \/ at' = "command" /\ ~running'.follow
    <3>1. CASE NotRun
      <4>1. outcome' = [NoOutcome EXCEPT !.result = "lost"] /\ at' \in {"finished", "suspended"}
        BY <3>1 DEF NotRun
      <4> QED BY <4>1 DEF NoOutcome
    <3>2. CASE ~NotRun
      BY <1>3, <2>1, <3>2 DEF RunCommand
    <3> QED BY <3>1, <3>2
  <2> QED BY <2>1, <2>2 DEF AckInv, Acknowledging, Following
<1>4. CASE RunProfile \/ ApplyProfile \/ RunObserve
  <2>1. running' = None /\ at' # "follow"
    BY <1>4, RunProfileStep, ApplyProfileStep, RunObserveStep DEF RunInv
  <2> QED BY <2>1 DEF AckInv
<1>5. CASE Followed
  <2>1. /\ at = "follow" /\ answer' = "none" /\ UNCHANGED <<hw, who, role>>
        /\ running # None /\ CommandTyped(running) /\ running.follow
        /\ \/ /\ at' = "command" /\ answer = "ok"
              /\ \/ running'.field = Camera
                 \/ /\ running.field[2] \in FlowSet
                    /\ running'.field = Mute(running.field[2], seen.hw[Route(running.field[2], role)].v)
           \/ at' \in {"finished", "suspended"} /\ outcome'.result # "ok"
    BY <1>5, FollowedStep DEF WorkerQuiet
  <2>2. CASE at' \in {"finished", "suspended"}
    BY <2>1, <2>2 DEF AckInv, Acknowledging, Following
  <2>3. CASE at' = "command" /\ running'.field = Camera
    BY <2>1, <2>3, CameraName DEF AckInv, Acknowledging, Following
  <2>4. CASE at' = "command" /\ running'.field # Camera
    <3> DEFINE f == running.field[2]
               e == seen.hw[Route(f, role)].v
    <3>1. f \in FlowSet /\ running'.field[2] = f /\ running'.field[3] = e /\ answer = "ok"
      BY <2>1, <2>4, MuteName
    <3>2. Route(f, role) \in Fields \ {Camera}
      BY <3>1, TypeParts, FieldMembers, RouteName, CameraName
    <3>3. InForce(Route(f, role), e)
      BY <2>1, <3>1, <3>2 DEF AckInv, SeenCurrent
    <3> QED BY <2>1, <2>4, <3>1, <3>3 DEF AckInv, Acknowledging, InForce
  <2> QED BY <2>1, <2>2, <2>3, <2>4
<1>6. CASE Answered \/ Suspended
  <2>1. /\ at \in {"command", "observe", "suspend"} /\ at' \in {"finished", "suspended"} /\ outcome'.result = answer
        /\ UNCHANGED <<hw, who, seen, running, role>>
    BY <1>6, AnsweredStep DEF WorkerQuiet
  <2>2. running # None => at = "command"
    BY <2>1 DEF RunInv
  <2>3. /\ SeenCurrent => SeenCurrent'
        /\ \A x, v : InForce(x, v) => hw'[x].v = v \/ who'[x] = "other"
    BY <2>1 DEF SeenCurrent, InForce
  <2> QED BY <2>1, <2>2, <2>3 DEF AckInv, Acknowledging, Following, InForce
<1>7. CASE ProfileDone
  <2>1. at = "done" /\ at' \in {"finished", "suspended"} /\ running' = running
    BY <1>7, ProfileDoneStep
  <2> QED BY <2>1 DEF AckInv, RunInv
<1>8. CASE TxStep /\ UNCHANGED outside
  <2>1. at \in {"first", "stage", "rollback"} /\ at' \in {"stage", "rollback", "done"} /\ running' = running
    BY <1>8, TxRuns, OutsideRuns
  <2> QED BY <2>1 DEF AckInv, RunInv
<1>9. CASE Elsewhen
  <2>1. World /\ UNCHANGED <<at, running, role, outcome>>
    BY <1>9, ElsewhenStep DEF HelperQuiet
  <2>2. Disturbed
    BY <2>1, WorldStep
  <2>3. \A x \in Fields \ {Camera} : Steady(x)
    BY <2>2 DEF Disturbed, Steady
  <2> QED BY <2>1, <2>2, <2>3, AckSteady DEF Disturbed
<1> QED BY <1>1, <1>2, <1>3, <1>4, <1>5, <1>6, <1>7, <1>8, <1>9, AckHelper, MuteSteps DEF TxStep

-----------------------------------------------------------------------------
(* The order in which mutes and routes are undone                           *)

\* A profile mutes only its own endpoint, and undoes the routes before the mutes.
UndoInv ==
  /\ at \in {"stage", "rollback"} => \A x \in DOMAIN was : x[1] = "mute" => x[3] = profile.endpoint
  /\ \A i, j \in DOMAIN undo : undo[i].field[1] = "mute" /\ undo[j].field[1] = "route" => j < i
  /\ at = "rollback" /\ call # None /\ call.field[1] = "mute" =>
       \A j \in DOMAIN undo : undo[j].field[1] # "route"

\* Which stages have a mute or a route for their target.
LEMMA StageTargets ==
  ASSUME profile \in Profiles, NEW i \in DOMAIN Plan, i # Len(Plan)
  PROVE  /\ Target(Plan[i])[1] = "mute" => /\ Plan[i].op = "mute" /\ Plan[i].flow \in FlowSet
                                           /\ Target(Plan[i]) = Mute(Plan[i].flow, profile.endpoint)
         /\ Target(Plan[i])[1] = "route" => /\ Plan[i].op = "route" /\ Plan[i].flow \in FlowSet
                                            /\ Plan[i].role \in RoleSet
                                            /\ Target(Plan[i]) = Route(Plan[i].flow, Plan[i].role)
<1> DEFINE s == Plan[i]
<1>1. /\ s.op \in {"mute", "level", "route", "camera"}
      /\ s.op \in {"mute", "level", "route"} => s.flow \in FlowSet
      /\ s.op = "route" => s.role \in RoleSet
  BY PlanStages
<1> HIDE DEF s
<1>2. CASE s.op = "mute"
  <2>1. Target(s) = Mute(s.flow, profile.endpoint)
    BY <1>2 DEF Target
  <2> QED BY <1>1, <1>2, <2>1, MuteName DEF s
<1>3. CASE s.op = "level"
  <2>1. Target(s) = Level(s.flow, profile.endpoint)
    BY <1>3 DEF Target
  <2> QED BY <2>1, LevelName DEF s
<1>4. CASE s.op = "route"
  <2>1. Target(s) = Route(s.flow, s.role)
    BY <1>4 DEF Target
  <2> QED BY <1>1, <1>4, <2>1, RouteName DEF s
<1>5. CASE s.op = "camera"
  <2>1. Target(s) = Camera
    BY <1>5 DEF Target
  <2> QED BY <2>1, CameraName DEF s
<1> QED BY <1>1, <1>2, <1>3, <1>4, <1>5

\* When a mute's compensation is pushed, no route has been changed.
LEMMA NoRouteYet ==
  ASSUME Inv1, WasInv, at = "stage", entry # None, entry.field = Target(Now), entry.field[1] = "mute",
         NEW j \in DOMAIN undo
  PROVE  undo[j].field[1] # "route"
<1>1. profile \in Profiles /\ step \in DOMAIN Plan /\ step \in Nat
  BY StageFacts, PlanParts DEF Inv1
<1>2. undo[j].field \in Touched \/ undo[j].field = entry.field
  BY DEF WasInv, UndoValues, FieldsInv
<1>3. step # Len(Plan) /\ Now.op = "mute"
  <2>1. Now.op # "verify"
    BY CameraName DEF Target
  <2>2. step # Len(Plan)
    BY <2>1, StageFacts DEF Inv1
  <2> QED BY <1>1, <2>2, StageTargets DEF Now
<1>4. ASSUME NEW i \in DOMAIN Plan, i < step, Target(Plan[i])[1] = "route" PROVE FALSE
  <2>1. i \in Nat /\ Len(Plan) \in Nat /\ step <= Len(Plan)
    BY <1>1, PlanParts
  <2>2. i # Len(Plan)
    BY <1>1, <1>4, <2>1
  <2>3. Plan[i].op = "route"
    BY <1>1, <1>4, <2>2, StageTargets
  <2>4. step < i
    BY <1>1, <1>3, <2>3, MutesBeforeRoutes DEF Now
  <2> QED BY <1>1, <1>4, <2>1, <2>4
<1> QED BY <1>2, <1>4 DEF Touched

LEMMA UndoHelper ==
  ASSUME Inv1, WasInv, UndoInv, HelperQuiet,
         Compare \/ Mutate \/ Refuse \/ ReadBack \/ ReadBackFails \/ Lose \/ Crash \/ World
  PROVE  UndoInv'
<1> TypeOK /\ ControlInv
  BY DEF Inv1
<1>1. UNCHANGED <<at, undo, profile>>
  BY DEF HelperQuiet
<1>2. call' # None => call # None /\ call'.field = call.field
  BY CompareStep, MutateStep, RefuseStep, ReadBackStep, ReadBackFailsStep, LoseStep, CrashStep, WorldStep DEF Disturbed
<1>3. ASSUME at \in {"stage", "rollback"}, NEW x \in DOMAIN was', x[1] = "mute" PROVE x[3] = profile.endpoint
  <2>1. CASE x \in DOMAIN was
    BY <1>3, <2>1 DEF UndoInv
  <2>2. CASE x \notin DOMAIN was
    <3>1. Compare /\ x = call.field /\ call # None /\ call.op = "set"
      BY <1>3, <2>2, CompareStep, MutateStep, RefuseStep, ReadBackStep, ReadBackFailsStep, LoseStep, CrashStep, WorldStep
      DEF Disturbed
    <3>2. at = "stage"
      BY <1>3, <2>2, <3>1 DEF WasInv
    <3>3. x = Target(Now) /\ Now.op # "verify" /\ step \in DOMAIN Plan /\ step # Len(Plan) /\ profile \in Profiles
      BY <3>1, <3>2, StageFacts DEF ControlInv, StageCall
    <3>4. x = Mute(Plan[step].flow, profile.endpoint)
      BY <1>3, <3>3, StageTargets DEF Now
    <3> QED BY <3>4, MuteName
  <2> QED BY <2>1, <2>2
<1> QED BY <1>1, <1>2, <1>3 DEF UndoInv

LEMMA UndoTx ==
  ASSUME Inv1, WasInv, UndoInv, TxStep
  PROVE  UndoInv'
<1> TypeOK /\ ControlInv
  BY DEF Inv1
<1>1. TxQuiet /\ at \in {"first", "stage", "rollback"}
  BY TxRuns
<1>2. UNCHANGED <<was, profile>>
  BY <1>1 DEF TxQuiet
<1>3. \A x \in DOMAIN was : x[1] = "mute" => x[3] = profile.endpoint
  <2>1. at = "first" => DOMAIN was = {}
    BY DEF WasInv
  <2> QED BY <1>1, <2>1 DEF UndoInv
<1>4. CASE Preflight \/ Compensated \/ RunStage \/ (StageAnswered /\ ~StageSucceeded)
  <2>1. undo' = undo /\ (call' = None \/ at' # "rollback")
    BY <1>4, PreflightStep, CompensatedStep, RunStageStep, StageAnsweredStep
    DEF RunStageSkips, RunStageAborts, RunStageSends, RunStageReads, StageApplied, StageMismatched, StageFailed
  <2> QED BY <1>2, <1>3, <2>1 DEF UndoInv
<1>5. CASE StageAnswered /\ StageSucceeded
  <2> DEFINE u == [entry EXCEPT !.rev = Revision(entry.field)]
  <2>1. undo' = <<u>> \o undo /\ entry # None /\ at = "stage" /\ call' = None /\ answer # "none"
    BY <1>5, StageAnsweredStep DEF StageSucceeded
  <2>2. u \in Entries /\ u.field = entry.field
    BY <2>1, PushedEntry, TypeParts
  <2> HIDE DEF u
  <2>3. /\ undo'[1] = u
        /\ \A j \in DOMAIN undo' : j = 1 \/ (j - 1 \in DOMAIN undo /\ undo'[j] = undo[j - 1])
        /\ undo' \in Seq(Entries)
    BY <2>1, <2>2, Pushed, TypeParts
  <2>4. entry.field = Target(Now)
    BY <2>1 DEF ControlInv, StageCall
  <2>5. ASSUME NEW i \in DOMAIN undo', NEW j \in DOMAIN undo',
               undo'[i].field[1] = "mute", undo'[j].field[1] = "route"
        PROVE  j < i
    <3>1. i \in Nat \ {0} /\ j \in Nat \ {0}
      BY <2>3
    <3>2. CASE i = 1
      <4>1. entry.field[1] = "mute"
        BY <2>2, <2>3, <2>5, <3>2
      <4>2. j - 1 \in DOMAIN undo /\ undo[j - 1].field[1] = "route"
        BY <2>2, <2>3, <2>5, <4>1
      <4> QED BY <2>1, <2>4, <4>1, <4>2, NoRouteYet
    <3>3. CASE i # 1 /\ j # 1
      <4>1. /\ i - 1 \in DOMAIN undo /\ undo'[i] = undo[i - 1]
            /\ j - 1 \in DOMAIN undo /\ undo'[j] = undo[j - 1]
        BY <2>3, <3>3
      <4>2. j - 1 < i - 1
        BY <2>5, <4>1 DEF UndoInv
      <4> QED BY <3>1, <4>2
    <3>4. CASE i # 1 /\ j = 1
      BY <3>1, <3>4
    <3> QED BY <3>2, <3>3, <3>4
  <2> QED BY <1>2, <1>3, <2>1, <2>5 DEF UndoInv
<1>6. CASE Compensate
  <2>1. CompensateEnds \/ CompensateSends \/ CompensateSkips
    BY <1>6, CompensateStep
  <2>2. CASE CompensateEnds
    BY <1>2, <1>3, <2>2 DEF CompensateEnds, UndoInv
  <2>3. CASE CompensateSends \/ CompensateSkips
    <3>1. /\ undo # <<>> /\ undo' = Tail(undo)
          /\ call' # None => call'.field = undo[1].field
      BY <2>3 DEF CompensateSends, CompensateSkips
    <3>2. /\ 1 \in DOMAIN undo /\ undo' \in Seq(Entries)
          /\ \A i \in DOMAIN undo' : i + 1 \in DOMAIN undo /\ undo'[i] = undo[i + 1]
      BY <3>1, Popped, TypeParts
    <3>3. ASSUME NEW i \in DOMAIN undo', NEW j \in DOMAIN undo',
                 undo'[i].field[1] = "mute", undo'[j].field[1] = "route"
          PROVE  j < i
      <4>1. i \in Nat /\ j \in Nat
        BY <3>2
      <4>2. j + 1 < i + 1
        BY <3>2, <3>3 DEF UndoInv
      <4> QED BY <4>1, <4>2
    <3>4. ASSUME call' # None, call'.field[1] = "mute", NEW j \in DOMAIN undo', undo'[j].field[1] = "route"
          PROVE  FALSE
      <4>1. j \in Nat \ {0}
        BY <3>2
      <4>2. j + 1 < 1
        BY <3>1, <3>2, <3>4 DEF UndoInv
      <4> QED BY <4>1, <4>2
    <3> QED BY <1>2, <1>3, <3>3, <3>4 DEF UndoInv
  <2> QED BY <2>1, <2>2, <2>3
<1> QED BY <1>4, <1>5, <1>6 DEF TxStep

LEMMA UndoNext == ASSUME Inv1, Inv1', WasInv, UndoInv, [Next]_vars PROVE UndoInv'
<1>1. CASE Unmoved
  <2>1. UNCHANGED <<was, call, undo, profile>> /\ (at' = at \/ at' = "queued")
    BY <1>1 DEF Unmoved, Queues
  <2> QED BY <2>1 DEF UndoInv
<1>2. CASE Outside
  <2>1. at' \notin {"stage", "rollback", "done"} /\ undo' = <<>>
    BY <1>2 DEF Outside, Inv1, ControlInv
  <2> QED BY <2>1 DEF UndoInv
<1> QED BY <1>1, <1>2, UndoTx, UndoHelper, StepKinds DEF TxStep

-----------------------------------------------------------------------------
(* Why a muted flow stays silent                                            *)

\* Silent, of a given state of the devices.
Hush(h, g, f, e) == e = None \/ <<f, e>> \in g \/ h[Mute(f, e)].v = TRUE

\* The route still leads to a silent endpoint, or to one whose mute is not the
\* profile's; the endpoint it led to before was silent, and another.
Traced(f, r, p) ==
  /\ r \in DOMAIN was => was[r] # p /\ Hush(hw, gone, f, was[r])
  /\ r \notin DOMAIN was /\ hw[r].v = p => Mute(f, p) \notin DOMAIN was

\* A profile for the controlled role leaves a silent endpoint of every muted flow.
Left(m) ==
  /\ at = "first" /\ answer = "ok" => seen.gone = gone
  /\ at = "stage" => m[1] \in leaves
  /\ at \in {"stage", "rollback"} /\ outcome.whole /\ blind = {} =>
       Traced(m[1], Route(m[1], profile.first), profile.endpoint)

LeftInv == ~crossed => \A m \in muted : Left(m)

\* What the promise leaves out, as far as it is decided.
Excused == crossed \/ (at \notin {"idle", "queued"} /\ ranProfile /\ (~outcome.whole \/ blind # {}))

SilentInv == ~Excused => \A m \in muted : Hush(hw, gone, m[1], hw[Route(m[1], m[2])].v)

LEMMA HushIsSilent ==
  ASSUME TypeOK, NEW f \in FlowSet, NEW e \in Endpoints \cup {None}
  PROVE  Silent(Observation, f, e) <=> Hush(hw, gone, f, e)
<1>1. e # None => hw[Mute(f, e)].v \in BOOLEAN
  BY TypeParts, FieldMembers, FieldValues, InventoryCell
<1>2. Observation.hw = hw /\ Observation.gone = gone
  BY DEF Observation
<1> QED BY <1>1, <1>2 DEF Silent, Present, Hush

\* The route of an acknowledged mute.
LEMMA MutedRoute ==
  ASSUME TypeOK, MutedInv, NEW m \in muted
  PROVE  /\ m[1] \in FlowSet /\ m[2] \in RoleSet
         /\ Route(m[1], m[2]) \in Fields \ {Camera} /\ Route(m[1], m[2])[1] = "route"
         /\ Route(m[1], m[2])[2] = m[1] /\ hw[Route(m[1], m[2])].v \in Endpoints \cup {None}
         /\ who[Route(m[1], m[2])] # "other"
<1>1. m[1] \in FlowSet /\ m[2] \in RoleSet /\ LastWord(m)
  BY DEF MutedInv, LastWord
<1> DEFINE r == Route(m[1], m[2])
<1>2. r \in Fields /\ r[1] = "route" /\ r[2] = m[1]
  BY <1>1, FieldMembers, RouteName
<1>3. hw[r].v \in Endpoints \cup {None}
  BY <1>1, TypeParts, RouteValue
<1> QED BY <1>1, <1>2, <1>3, CameraName DEF LastWord

\* Silence lasts while the endpoint's own mute does.
LEMMA HushKept ==
  ASSUME NEW f \in FlowSet, NEW e \in Endpoints \cup {None}, Hush(hw, gone, f, e), gone' = gone,
         e # None => hw'[Mute(f, e)].v = hw[Mute(f, e)].v
  PROVE  Hush(hw', gone', f, e)
BY DEF Hush

\* A change of something else keeps it, and the route's endpoint.
LEMMA HushAside ==
  ASSUME TypeOK, MutedInv, NEW m \in muted, Hush(hw, gone, m[1], hw[Route(m[1], m[2])].v), gone' = gone,
         NEW c, \A y \in Fields \ {Camera} : y # c => hw'[y].v = hw[y].v,
         c # Route(m[1], m[2]), c # Mute(m[1], hw[Route(m[1], m[2])].v)
  PROVE  Hush(hw', gone', m[1], hw'[Route(m[1], m[2])].v)
<1> DEFINE f == m[1]
           r == Route(m[1], m[2])
           e == hw[r].v
<1>1. f \in FlowSet /\ r \in Fields \ {Camera} /\ e \in Endpoints \cup {None}
  BY MutedRoute
<1>2. hw'[r].v = e
  BY <1>1
<1>3. e # None => Mute(f, e) \in Fields \ {Camera}
  BY <1>1, FieldMembers, MuteName, CameraName
<1>4. e # None => hw'[Mute(f, e)].v = hw[Mute(f, e)].v
  BY <1>3
<1>5. Hush(hw', gone', f, e)
  BY <1>1, <1>4, HushKept
<1> QED BY <1>2, <1>5

\* What a change during a profile for the controlled role finds.
LEMMA InProfile ==
  ASSUME Inv1, RunInv, MutedInv, LeftInv, at \in {"stage", "rollback"}, ~Excused, NEW m \in muted
  PROVE  /\ ~crossed /\ outcome.whole /\ blind = {} /\ m[2] = profile.first /\ profile \in Profiles
         /\ Left(m) /\ Traced(m[1], Route(m[1], m[2]), profile.endpoint)
         /\ profile.endpoint \in Endpoints
<1>1. ranProfile /\ InTransaction
  BY DEF RunInv, InTransaction
<1>2. ~crossed
  BY DEF Excused
<1>3. outcome.whole /\ blind = {}
  BY <1>1 DEF Excused
<1>4. m[2] = role /\ profile.first = role
  BY <1>1, <1>2 DEF MutedInv, LastWord
<1>5. Left(m)
  BY <1>2 DEF LeftInv
<1>6. profile \in Profiles
  BY TypeParts DEF Inv1
<1>7. profile.endpoint \in Endpoints
  BY <1>6, ProfileTyped
<1> QED BY <1>2, <1>3, <1>4, <1>5, <1>6, <1>7 DEF Left

\* A stage that moves a muted flow's route finds the new endpoint muted.
LEMMA MutedAhead ==
  ASSUME Inv1, MutedInv, AppliedInv, at = "stage", Now.op = "route", NEW m \in muted, m[1] \in leaves
  PROVE  hw[Mute(m[1], profile.endpoint)].v = TRUE
<1>1. profile \in Profiles /\ step \in DOMAIN Plan /\ m[1] \in FlowSet /\ profile.endpoint \in Endpoints
  BY StageFacts, ProfileTyped DEF Inv1, MutedInv, LastWord
<1>2. PICK i \in DOMAIN Plan : Plan[i].op = "mute" /\ Plan[i].flow = m[1]
  BY <1>1, PlanMutes
<1>3. i < step
  BY <1>1, <1>2, MutesBeforeRoutes DEF Now
<1>4. Prepares(Plan[i]) /\ Prepared
  BY <1>2 DEF Prepares, Needed, AppliedInv
<1>5. InForce(Target(Plan[i]), Wanted(Plan[i]))
  BY <1>3, <1>4 DEF Prepared
<1>6. Target(Plan[i]) = Mute(m[1], profile.endpoint) /\ Wanted(Plan[i]) = TRUE
  BY <1>1, <1>2, PreparingStage
<1>7. InForce(Mute(m[1], profile.endpoint), TRUE)
  BY <1>5, <1>6
<1>8. who[Mute(m[1], profile.endpoint)] # "other"
  <2>1. Mute(m[1], profile.endpoint) \in Fields /\ Mute(m[1], profile.endpoint)[2] = m[1]
    BY <1>1, FieldMembers, MuteName
  <2> QED BY <2>1 DEF MutedInv, LastWord
<1> QED BY <1>7, <1>8 DEF InForce

\* What a stage's command is for.
LEMMA StageCommand ==
  ASSUME Inv1, WasInv, at = "stage", call # None, call.op = "set"
  PROVE  /\ call.field = Target(Now) /\ call.v = Wanted(Now) /\ step # Len(Plan) /\ Now.op # "verify"
         /\ entry # None /\ call.field = entry.field /\ call.v # entry.old
         /\ entry.old = seen.hw[call.field].v /\ call.rev = seen.hw[call.field].rev
         /\ call.field[1] = "mute" => /\ call.field = Mute(call.field[2], profile.endpoint) /\ call.v = TRUE
         /\ call.field[1] = "route" => call.v = profile.endpoint /\ Now.op = "route"
<1> TypeOK /\ ControlInv
  BY DEF Inv1
<1>1. profile \in Profiles /\ step \in DOMAIN Plan
  BY StageFacts
<1>2. entry # None /\ call.field = entry.field /\ call.rev = entry.rev /\ call.v = Wanted(Now)
      /\ entry.field = Target(Now) /\ Now.op # "verify"
  BY DEF ControlInv, StageCall
<1>3. step # Len(Plan)
  BY <1>2, StageFacts
<1>4. call.v # entry.old /\ entry.old = seen.hw[call.field].v /\ call.rev = seen.hw[call.field].rev
  BY <1>2 DEF WasInv, EntryInv
<1>5. call.field[1] = "mute" => call.field = Mute(call.field[2], profile.endpoint) /\ call.v = TRUE
  <2>1. SUFFICES ASSUME call.field[1] = "mute" PROVE call.field = Mute(call.field[2], profile.endpoint) /\ call.v = TRUE
    OBVIOUS
  <2>2. Now.op = "mute" /\ call.field = Mute(Now.flow, profile.endpoint)
    BY <1>1, <1>2, <1>3, <2>1, StageTargets DEF Now
  <2>3. call.field[2] = Now.flow
    BY <2>2, MuteName
  <2>4. Wanted(Now) = TRUE
    BY <2>2 DEF Wanted
  <2> QED BY <1>2, <2>2, <2>3, <2>4
<1>6. call.field[1] = "route" => call.v = profile.endpoint /\ Now.op = "route"
  <2>1. SUFFICES ASSUME call.field[1] = "route" PROVE call.v = profile.endpoint /\ Now.op = "route"
    OBVIOUS
  <2>2. Now.op = "route"
    BY <1>1, <1>2, <1>3, <2>1, StageTargets DEF Now
  <2> QED BY <1>2, <2>2 DEF Wanted
<1> QED BY <1>2, <1>3, <1>4, <1>5, <1>6

\* Undoing a mute of a flow that must stay silent, the route is back.
LEMMA RouteIsBack ==
  ASSUME Inv1, RunInv, MutedInv, WasInv, HonestInv, UndoInv, LeftInv, ~Excused,
         at = "rollback", call # None, call.field[1] = "mute", NEW m \in muted, call.field[2] = m[1]
  PROVE  call.field = Mute(m[1], profile.endpoint) /\ hw[Route(m[1], m[2])].v # profile.endpoint
<1> DEFINE r == Route(m[1], m[2])
           p == profile.endpoint
<1> TypeOK /\ ControlInv
  BY DEF Inv1
<1>1. /\ ~crossed /\ outcome.whole /\ blind = {} /\ Traced(m[1], r, p)
  BY InProfile
<1>2. r \in Fields \ {Camera} /\ r[1] = "route" /\ who[r] # "other"
  BY MutedRoute
<1>3. call.field \in DOMAIN was /\ call.field \in Fields
  BY WasFields DEF WasInv
<1>4. call.field = Mute(m[1], p)
  <2>1. call.field[3] = p
    BY <1>3 DEF UndoInv
  <2>2. call.field = Mute(call.field[2], call.field[3])
    BY <1>3, FieldKinds
  <2> QED BY <2>1, <2>2
<1>5. CASE r \in DOMAIN was
  <2>1. Restored(r) \/ Pending(r)
    BY <1>1, <1>5 DEF HonestInv
  <2>2. ~Pending(r)
    <3>1. \A i \in DOMAIN undo : undo[i].field # r
      BY <1>2 DEF UndoInv
    <3>2. entry = None /\ answer = "none" /\ call.field # r
      BY <1>2 DEF ControlInv
    <3> QED BY <3>1, <3>2 DEF Pending
  <2>3. hw[r].v = was[r]
    BY <1>2, <2>1, <2>2 DEF Restored
  <2> QED BY <1>1, <1>4, <1>5, <2>3 DEF Traced
<1>6. CASE r \notin DOMAIN was
  BY <1>1, <1>3, <1>4, <1>6 DEF Traced
<1> QED BY <1>5, <1>6

LEMMA SilentMutate ==
  ASSUME Inv1, WasInv, AppliedInv, HonestInv, RunInv, MutedInv, UndoInv, LeftInv, SilentInv, ~Excused,
         Mutate, NEW m \in muted
  PROVE  Hush(hw', gone', m[1], hw'[Route(m[1], m[2])].v)
<1> DEFINE f == m[1]
           r == Route(m[1], m[2])
           e == hw[r].v
           p == profile.endpoint
           c == call.field
<1> TypeOK /\ ControlInv
  BY DEF Inv1
<1>1. /\ call # None /\ call.op = "set" /\ c \in Fields /\ gone' = gone
      /\ \A y \in Fields \ {c} : hw'[y] = hw[y]
      /\ hw'[c].v = call.v
  BY MutateStep
<1>2. f \in FlowSet /\ r \in Fields \ {Camera} /\ r[1] = "route" /\ r[2] = f /\ e \in Endpoints \cup {None}
  BY MutedRoute
<1>3. Hush(hw, gone, f, e)
  BY DEF SilentInv
<1>4. c # r /\ c # Mute(f, e) => Hush(hw', gone', f, hw'[r].v)
  BY <1>1, <1>3, HushAside
<1>5. Mute(f, e)[1] = "mute" /\ Mute(f, e)[2] = f
  BY MuteName
<1>6. at \in {"command", "stage", "rollback"}
  BY <1>1 DEF ControlInv
<1>7. CASE at = "command"
  <2>1. running # None /\ c = running.field
    BY <1>1, <1>7 DEF ControlInv
  <2>2. c[1] # "route" /\ (c[1] = "mute" => c[2] # f)
    BY <2>1 DEF RunInv, MutedInv, LastWord
  <2> QED BY <1>2, <1>4, <1>5, <2>2
<1>8. CASE at = "stage" /\ c = r
  <2>1. call.v = p /\ Now.op = "route" /\ p \in Endpoints /\ f \in leaves
    BY <1>1, <1>2, <1>8, StageCommand, InProfile DEF Left
  <2>2. hw[Mute(f, p)].v = TRUE
    BY <1>8, <2>1, MutedAhead
  <2>3. Mute(f, p) \in Fields /\ Mute(f, p) # r
    BY <1>2, <2>1, FieldMembers, MuteName
  <2>4. hw'[r].v = p /\ hw'[Mute(f, p)].v = TRUE
    BY <1>1, <1>8, <2>1, <2>2, <2>3
  <2> QED BY <2>4 DEF Hush
<1>9. CASE at = "stage" /\ c = Mute(f, e)
  <2>1. call.v = TRUE
    BY <1>1, <1>5, <1>9, StageCommand
  <2>2. hw'[r].v = e /\ hw'[Mute(f, e)].v = TRUE
    BY <1>1, <1>2, <1>5, <1>9, <2>1
  <2> QED BY <2>2 DEF Hush
<1>10. CASE at = "rollback" /\ c = r
  <2>1. c \in DOMAIN was /\ call.v = was[c]
    BY <1>1, <1>10 DEF WasInv
  <2>2. Hush(hw, gone, f, was[r])
    BY <1>10, <2>1, InProfile DEF Traced
  <2>3. call.v \in Endpoints \cup {None}
    <3>1. call.v \in Values(c)
      BY MutateStep
    <3> QED BY <1>2, <1>10, <3>1, ValuesOf
  <2>4. call.v # None => hw'[Mute(f, call.v)].v = hw[Mute(f, call.v)].v
    <3>1. SUFFICES ASSUME call.v # None PROVE hw'[Mute(f, call.v)].v = hw[Mute(f, call.v)].v
      OBVIOUS
    <3>2. Mute(f, call.v) \in Fields /\ Mute(f, call.v) # r
      BY <1>2, <2>3, <3>1, FieldMembers, MuteName
    <3> QED BY <1>1, <1>10, <3>2
  <2>5. Hush(hw', gone', f, call.v)
    BY <1>1, <1>2, <1>10, <2>1, <2>2, <2>3, <2>4, HushKept
  <2> QED BY <1>1, <1>10, <2>5
<1>11. CASE at = "rollback" /\ c = Mute(f, e)
  <2>1. c = Mute(f, p) /\ e # p
    BY <1>1, <1>5, <1>11, RouteIsBack
  <2>2. Mute(f, p)[3] = p /\ Mute(f, e)[3] = e
    BY MuteName
  <2> QED BY <1>11, <2>1, <2>2
<1> QED BY <1>4, <1>6, <1>7, <1>8, <1>9, <1>10, <1>11

-----------------------------------------------------------------------------
(* What a profile leaves of a muted flow                                    *)

\* The first stage begins with the silent flow among those that are left.
LEMMA LeftBegins ==
  ASSUME Inv1, SeenInv, WasInv, RunInv, MutedInv, LeftInv, SilentInv, Preflight, at' = "stage",
         ~crossed, NEW m \in muted
  PROVE  m[1] \in leaves'
<1> DEFINE f == m[1]
           r == Route(m[1], m[2])
           e == hw[r].v
<1> TypeOK /\ ControlInv
  BY DEF Inv1
<1>1. /\ at = "first" /\ answer = "ok" /\ call = None
      /\ leaves' = {g \in FlowSet : Silent(seen, g, seen.hw[Route(g, profile.first)].v)}
  BY PreflightStep
<1>2. f \in FlowSet /\ r \in Fields \ {Camera} /\ e \in Endpoints \cup {None} /\ who[r] # "other"
  BY MutedRoute
<1>3. m[2] = profile.first /\ \A x \in Fields : x[2] = f => who[x] # "other"
  BY <1>1 DEF MutedInv, LastWord, InTransaction
<1>4. outcome.whole /\ blind = {}
  BY <1>1 DEF RunInv, WasInv
<1>5. Hush(hw, gone, f, e)
  BY <1>4 DEF SilentInv, Excused
<1>6. seen.gone = gone
  BY <1>1 DEF LeftInv, Left
<1>7. \A x \in Fields \ {Camera} : InForce(x, seen.hw[x].v)
  BY <1>1 DEF SeenInv, SeenNow, InTouch, Unread
<1>8. seen.hw[r].v = e
  BY <1>2, <1>7 DEF InForce
<1>9. Silent(seen, f, e)
  <2>1. CASE e = None \/ <<f, e>> \in gone
    BY <1>6, <2>1 DEF Silent, Present
  <2>2. CASE e # None /\ hw[Mute(f, e)].v = TRUE
    <3>1. /\ Mute(f, e) \in Fields \ {Camera} /\ Mute(f, e)[2] = f
      BY <1>2, <2>2, FieldMembers, MuteName, CameraName
    <3>2. seen.hw[Mute(f, e)].v = TRUE
      BY <1>3, <1>7, <2>2, <3>1 DEF InForce
    <3> QED BY <3>2 DEF Silent
  <2> QED BY <1>5, <2>1, <2>2 DEF Hush
<1> QED BY <1>1, <1>2, <1>3, <1>8, <1>9

\* A mute of a muted flow is the profile's own; undone, the route is back.
LEMMA OwnMute ==
  ASSUME Inv1, WasInv, HonestInv, RunInv, MutedInv, UndoInv, LeftInv, ~Excused, at \in {"stage", "rollback"},
         call # None, call.op = "set", call.field[1] = "mute", NEW m \in muted, call.field[2] = m[1]
  PROVE  /\ call.field = Mute(m[1], profile.endpoint)
         /\ at = "rollback" => hw[Route(m[1], m[2])].v # profile.endpoint
BY StageCommand, RouteIsBack

\* What is compared while a profile runs leaves the traces of a muted flow.
LEMMA TracedCompare ==
  ASSUME Inv1, SeenInv, WasInv, HonestInv, RunInv, MutedInv, UndoInv, LeftInv, SilentInv, ~Excused,
         Compare, at \in {"stage", "rollback"}, NEW m \in muted, NEW r, r = Route(m[1], m[2]),
         NEW p, p = profile.endpoint
  PROVE  /\ r \in DOMAIN was' => was'[r] # p /\ Hush(hw', gone', m[1], was'[r])
         /\ r \notin DOMAIN was' /\ hw'[r].v = p => Mute(m[1], p) \notin DOMAIN was'
<1> DEFINE f == m[1]
           e == hw[r].v
           c == call.field
<1> TypeOK /\ ControlInv
  BY DEF Inv1
<1>1. /\ call # None /\ call.op = "set" /\ c \in Fields /\ gone' = gone /\ hw' = hw
      /\ call.stage = "sent" /\ hw[c].rev = call.rev /\ Reachable(Observation, c, call.v)
      /\ DOMAIN was' = DOMAIN was \cup {c} /\ (\A x \in DOMAIN was : was'[x] = was[x])
      /\ c \notin DOMAIN was => was'[c] = hw[c].v
  BY CompareStep
<1>2. f \in FlowSet /\ r \in Fields \ {Camera} /\ r[1] = "route" /\ r[2] = f /\ e \in Endpoints \cup {None}
  BY MutedRoute
<1>3. Hush(hw, gone, f, e)
  BY DEF SilentInv
<1>4. Traced(f, r, p) /\ p \in Endpoints /\ p # None
  BY InProfile, DeviceAssumption
<1>5. at = "stage" => c \notin DOMAIN was /\ call.v # hw[c].v
  <2>1. SUFFICES ASSUME at = "stage" PROVE c \notin DOMAIN was /\ call.v # hw[c].v
    OBVIOUS
  <2>2. /\ entry # None /\ c = entry.field /\ call.v # entry.old
        /\ entry.old = seen.hw[c].v /\ call.rev = seen.hw[c].rev
    BY <1>1, <2>1, StageCommand
  <2>3. c \notin DOMAIN was
    BY <1>1, <2>1, <2>2 DEF WasInv, EntryInv
  <2>4. seen.hw[c].v = hw[c].v
    BY <1>1, <2>1, <2>2 DEF SeenInv, InTouch, SeenOld
  <2> QED BY <2>2, <2>3, <2>4
<1>6. at = "rollback" => c \in DOMAIN was
  BY <1>1 DEF WasInv
<1>7. CASE r \in DOMAIN was
  BY <1>1, <1>4, <1>7 DEF Traced
<1>8. CASE r \notin DOMAIN was /\ c = r
  <2>1. at = "stage"
    BY <1>6, <1>8
  <2>2. call.v = p
    BY <1>1, <1>2, <1>8, <2>1, StageCommand
  <2>3. was'[r] = e /\ r \in DOMAIN was' /\ e # p
    BY <1>1, <1>5, <1>8, <2>1, <2>2
  <2> QED BY <1>1, <1>3, <2>3
<1>9. CASE r \notin DOMAIN was /\ c # r
  <2>1. r \notin DOMAIN was' /\ hw'[r].v = e
    BY <1>1, <1>9
  <2>2. SUFFICES ASSUME e = p PROVE Mute(f, p) \notin DOMAIN was'
    BY <2>1
  <2>3. Mute(f, p) \notin DOMAIN was
    BY <1>4, <1>9, <2>2 DEF Traced
  <2>4. c # Mute(f, p)
    <3>1. SUFFICES ASSUME c = Mute(f, p) PROVE FALSE
      OBVIOUS
    <3>2. c[1] = "mute" /\ c[2] = f /\ c[3] = p
      BY <3>1, MuteName
    <3>3. at = "stage"
      BY <1>1, <2>2, <3>2, OwnMute
    <3>4. call.v = TRUE
      BY <1>1, <3>2, <3>3, StageCommand
    <3>5. <<f, p>> \notin gone
      <4>1. Present(Observation, c[2], c[3])
        BY <1>1, <3>2 DEF Reachable
      <4> QED BY <3>2, <4>1 DEF Present, Observation
    <3>6. hw[c].v = TRUE
      BY <1>3, <1>4, <2>2, <3>1, <3>5 DEF Hush
    <3> QED BY <1>5, <3>3, <3>4, <3>6
  <2> QED BY <1>1, <2>3, <2>4
<1> QED BY <1>7, <1>8, <1>9

\* So does what is written.
LEMMA TracedMutate ==
  ASSUME Inv1, WasInv, HonestInv, RunInv, MutedInv, UndoInv, LeftInv, ~Excused,
         Mutate, at \in {"stage", "rollback"}, NEW m \in muted, NEW r, r = Route(m[1], m[2]),
         NEW p, p = profile.endpoint
  PROVE  /\ r \in DOMAIN was' => was'[r] # p /\ Hush(hw', gone', m[1], was'[r])
         /\ r \notin DOMAIN was' /\ hw'[r].v = p => Mute(m[1], p) \notin DOMAIN was'
<1> DEFINE f == m[1]
           c == call.field
<1> TypeOK /\ ControlInv
  BY DEF Inv1
<1>1. /\ call # None /\ call.op = "set" /\ call.stage = "checked" /\ c \in Fields
      /\ gone' = gone /\ was' = was /\ \A y \in Fields \ {c} : hw'[y] = hw[y]
  BY MutateStep
<1>2. f \in FlowSet /\ r \in Fields \ {Camera} /\ r[1] = "route" /\ r[2] = f
  BY MutedRoute
<1>3. Traced(f, r, p)
  BY InProfile
<1>4. c \in DOMAIN was
  <2>1. CASE at = "stage"
    <3>1. entry # None /\ c = entry.field
      BY <1>1, <2>1, StageCommand
    <3> QED BY <1>1, <2>1, <3>1 DEF WasInv, EntryInv
  <2>2. CASE at = "rollback"
    BY <1>1, <2>2 DEF WasInv
  <2> QED BY <2>1, <2>2
<1>5. CASE r \in DOMAIN was
  <2> DEFINE o == was[r]
  <2>1. o # p /\ Hush(hw, gone, f, o)
    BY <1>3, <1>5 DEF Traced
  <2>2. o \in Endpoints \cup {None}
    <3>1. was[r] \in Values(r)
      BY <1>5 DEF TypeOK, HelperTypes
    <3> QED BY <1>2, <3>1, ValuesOf
  <2> HIDE DEF o
  <2>3. o # None => hw'[Mute(f, o)].v = hw[Mute(f, o)].v
    <3>1. SUFFICES ASSUME o # None PROVE hw'[Mute(f, o)].v = hw[Mute(f, o)].v
      OBVIOUS
    <3>2. Mute(f, o) \in Fields
      BY <1>2, <2>2, <3>1, FieldMembers
    <3>3. Mute(f, o)[1] = "mute" /\ Mute(f, o)[2] = f /\ Mute(f, o)[3] = o /\ Mute(f, p)[3] = p
      BY MuteName
    <3>4. Mute(f, o) # c
      BY <1>1, <2>1, <3>3, OwnMute
    <3> QED BY <1>1, <3>2, <3>4
  <2>4. Hush(hw', gone', f, o)
    BY <1>1, <1>2, <2>1, <2>2, <2>3, HushKept
  <2> QED BY <1>1, <1>5, <2>1, <2>4 DEF o
<1>6. CASE r \notin DOMAIN was
  BY <1>1, <1>2, <1>3, <1>4, <1>6 DEF Traced
<1> QED BY <1>5, <1>6

\* What else the helper does keeps them.
LEMMA TracedKept ==
  ASSUME TypeOK, NEW f \in FlowSet, NEW r \in Fields \ {Camera}, r[1] = "route", NEW p, Traced(f, r, p),
         gone' = gone, was' = was, \A y \in Fields \ {Camera} : hw'[y] = hw[y]
  PROVE  /\ r \in DOMAIN was' => was'[r] # p /\ Hush(hw', gone', f, was'[r])
         /\ r \notin DOMAIN was' /\ hw'[r].v = p => Mute(f, p) \notin DOMAIN was'
<1>1. CASE r \in DOMAIN was
  <2>1. was[r] # p /\ Hush(hw, gone, f, was[r])
    BY <1>1 DEF Traced
  <2>2. was[r] \in Endpoints \cup {None}
    <3>1. was[r] \in Values(r)
      BY <1>1 DEF TypeOK, HelperTypes
    <3> QED BY <3>1, ValuesOf
  <2> DEFINE o == was[r]
  <2>3. o # None => hw'[Mute(f, o)].v = hw[Mute(f, o)].v
    BY <2>2, FieldMembers, MuteName, CameraName
  <2>4. Hush(hw', gone', f, o)
    BY <2>1, <2>2, <2>3, HushKept
  <2> QED BY <1>1, <2>1, <2>4
<1>2. CASE r \notin DOMAIN was
  BY <1>2 DEF Traced
<1> QED BY <1>1, <1>2

LEMMA LeftTx ==
  ASSUME Inv1, SeenInv, WasInv, RunInv, MutedInv, LeftInv, SilentInv, TxStep, UNCHANGED outside
  PROVE  LeftInv'
<1> TypeOK /\ ControlInv
  BY DEF Inv1
<1>1. UNCHANGED <<muted, crossed>> /\ TxQuiet
      /\ at' # "first" /\ (outcome'.whole => outcome.whole) /\ (at' = "rollback" => at # "first")
  <2>1. at' = "rollback" => at # "first"
    BY PreflightStep, RunStageStep, StageAnsweredStep, CompensateStep, CompensatedStep DEF TxStep
  <2> QED BY <2>1, OutsideRuns, TxRuns
<1>2. SUFFICES ASSUME ~crossed, NEW m \in muted PROVE Left(m)'
  BY <1>1 DEF LeftInv
<1>3. Left(m)
  BY <1>2 DEF LeftInv
<1>4. CASE Preflight
  <2>1. at = "first" /\ DOMAIN was = {}
    BY <1>4, PreflightStep DEF WasInv
  <2>2. at' = "stage" => m[1] \in leaves'
    BY <1>2, <1>4, LeftBegins
  <2>3. DOMAIN was' = {}
    BY <1>1, <2>1 DEF TxQuiet
  <2> QED BY <1>1, <2>1, <2>2, <2>3 DEF Left, Traced
<1>5. CASE ~Preflight
  <2>1. at \in {"stage", "rollback"} /\ leaves' = leaves /\ (at' = "stage" => at = "stage")
    BY <1>5, RunStageStep, StageAnsweredStep, CompensateStep, CompensatedStep, TxRuns DEF TxStep
  <2> QED BY <1>1, <1>3, <2>1 DEF Left, Traced, TxQuiet
<1> QED BY <1>4, <1>5

LEMMA LeftHelper ==
  ASSUME Inv1, SeenInv, WasInv, HonestInv, RunInv, MutedInv, UndoInv, LeftInv, SilentInv,
         HelperMoves, HelperQuiet, UNCHANGED outside
  PROVE  LeftInv'
<1> TypeOK /\ ControlInv
  BY DEF Inv1
<1>1. UNCHANGED <<at, profile, leaves, outcome, muted, crossed, ranProfile>> /\ gone' = gone
  BY OutsideRuns, HelperWrites DEF HelperQuiet
<1>2. SUFFICES ASSUME ~crossed, NEW m \in muted PROVE Left(m)'
  BY <1>1 DEF LeftInv
<1>3. Left(m)
  BY <1>2 DEF LeftInv
<1>4. at = "first" /\ answer' = "ok" => seen'.gone = gone
  <2>1. SUFFICES ASSUME at = "first", answer' = "ok" PROVE seen'.gone = gone
    OBVIOUS
  <2>2. call # None => call.op = "observe" /\ answer = "none"
    BY <2>1 DEF ControlInv
  <2>3. CASE ReadBack
    BY <2>3, ReadBackStep
  <2>4. CASE Crash
    <3>1. UNCHANGED <<answer, seen>>
      BY <2>4, CrashStep
    <3> QED BY <1>3, <2>1, <3>1 DEF Left
  <2>5. ~Compare /\ ~Mutate /\ ~Refuse /\ ~ReadBackFails /\ ~Suspend /\ ~Lose
    BY <2>1, <2>2, CompareStep, MutateStep, RefuseStep, ReadBackFailsStep, SuspendStep, LoseStep
  <2> QED BY <2>3, <2>4, <2>5 DEF HelperMoves
<1>5. ASSUME at \in {"stage", "rollback"}, outcome.whole, blind' = {}
      PROVE  Traced(m[1], Route(m[1], profile.first), profile.endpoint)'
  <2> DEFINE r == Route(m[1], m[2])
             p == profile.endpoint
  <2>1. blind = {} /\ ranProfile
    BY <1>5, HelperWrites, MutateStep DEF RunInv, InTransaction
  <2>2. ~Excused
    BY <1>2, <1>5, <2>1 DEF Excused
  <2>3. m[2] = profile.first /\ Traced(m[1], r, p)
    BY <1>5, <2>2, InProfile
  <2>4. m[1] \in FlowSet /\ r \in Fields \ {Camera} /\ r[1] = "route"
    BY MutedRoute
  <2>5. /\ r \in DOMAIN was' => was'[r] # p /\ Hush(hw', gone', m[1], was'[r])
        /\ r \notin DOMAIN was' /\ hw'[r].v = p => Mute(m[1], p) \notin DOMAIN was'
    <3>1. CASE Mutate
      BY <1>5, <2>2, <3>1, TracedMutate
    <3>2. CASE Compare
      BY <1>5, <2>2, <3>2, TracedCompare
    <3>3. CASE ~Mutate /\ ~Compare
      BY <2>3, <2>4, <3>3, HelperWrites, TracedKept
    <3> QED BY <3>1, <3>2, <3>3
  <2> QED BY <1>1, <2>3, <2>5 DEF Traced
<1> QED BY <1>1, <1>3, <1>4, <1>5 DEF Left

LEMMA LeftNext ==
  ASSUME Inv1, SeenInv, WasInv, HonestInv, RunInv, MutedInv, UndoInv, LeftInv, SilentInv, [Next]_vars
  PROVE  LeftInv'
<1> TypeOK /\ ControlInv
  BY DEF Inv1
<1>1. CASE Unmoved /\ Wanes
  <2>1. UNCHANGED <<hw, gone, was, blind, answer, seen, leaves, outcome, profile>>
        /\ (at' = at \/ at' = "queued") /\ muted' \subseteq muted /\ crossed' = crossed
    BY <1>1 DEF Unmoved, Queues, Wanes
  <2> QED BY <2>1 DEF LeftInv, Left, Traced
<1>2. CASE Complete
  <2>1. at' \in {"idle", "queued"}
    BY <1>2, CompleteStep
  <2> QED BY <2>1 DEF LeftInv, Left
<1>3. CASE (\E l \in Lanes : RunCommand(l)) \/ RunProfile \/ ApplyProfile \/ RunObserve
  <2>1. Begun
    BY <1>3, Inv1Take
  <2> QED BY <2>1 DEF Begun, LeftInv, Left
<1>4. CASE Followed \/ Answered \/ Suspended \/ ProfileDone
  <2>1. at' \in {"command", "finished", "suspended"}
    BY <1>4, FollowedStep, AnsweredStep, ProfileDoneStep
  <2> QED BY <2>1 DEF LeftInv, Left
<1>5. CASE Elsewhen
  <2>1. UNCHANGED <<at, profile, leaves, outcome, crossed>>
    BY <1>5, ElsewhenStep DEF HelperQuiet
  <2>2. SUFFICES ASSUME ~crossed, NEW m \in muted' PROVE Left(m)'
    BY <2>1 DEF LeftInv
  <2>3. m \in muted /\ gone' = gone /\ UNCHANGED <<answer, seen, was, blind>>
        /\ \A x \in Fields : x[2] = m[1] => hw'[x] = hw[x]
    BY <1>5, <2>2, KeptElsewhen
  <2>4. Left(m)
    BY <2>2, <2>3 DEF LeftInv
  <2>5. ASSUME at \in {"stage", "rollback"}, outcome.whole, blind = {}
        PROVE  Traced(m[1], Route(m[1], profile.first), profile.endpoint)'
    <3> DEFINE r == Route(m[1], m[2])
               p == profile.endpoint
    <3>1. ranProfile /\ InTransaction
      BY <2>5 DEF RunInv, InTransaction
    <3>2. ~Excused
      BY <2>2, <2>5, <3>1 DEF Excused
    <3>3. m[2] = profile.first /\ Traced(m[1], r, p)
      BY <2>3, <2>5, <3>2, InProfile
    <3>4. m[1] \in FlowSet /\ r \in Fields \ {Camera} /\ r[1] = "route" /\ r[2] = m[1]
      BY <2>3, MutedRoute
    <3>5. hw'[r] = hw[r]
      BY <2>3, <3>4
    <3>6. ASSUME r \in DOMAIN was PROVE was[r] # p /\ Hush(hw', gone', m[1], was[r])
      <4>1. was[r] # p /\ Hush(hw, gone, m[1], was[r])
        BY <3>3, <3>6 DEF Traced
      <4>2. was[r] \in Endpoints \cup {None}
        <5>1. was[r] \in Values(r)
          BY <3>6 DEF TypeOK, HelperTypes
        <5> QED BY <3>4, <5>1, ValuesOf
      <4>3. was[r] # None => hw'[Mute(m[1], was[r])].v = hw[Mute(m[1], was[r])].v
        BY <2>3, <3>4, <4>2, FieldMembers, MuteName
      <4>4. Hush(hw', gone', m[1], was[r])
        BY <2>3, <3>4, <4>1, <4>2, <4>3, HushKept
      <4> QED BY <4>1, <4>4
    <3>7. r \notin DOMAIN was /\ hw'[r].v = p => Mute(m[1], p) \notin DOMAIN was
      BY <3>3, <3>5 DEF Traced
    <3> QED BY <2>1, <2>3, <3>3, <3>6, <3>7 DEF Traced
  <2> QED BY <2>1, <2>3, <2>4, <2>5 DEF Left
<1> QED BY <1>1, <1>2, <1>3, <1>4, <1>5, LeftTx, LeftHelper, MuteSteps

-----------------------------------------------------------------------------
(* The muted flows are silent                                               *)

\* A mute that has just been acknowledged silences its flow.
LEMMA AcknowledgedIsSilent ==
  ASSUME Inv1, AckInv, at \in {"finished", "suspended"}, NEW m, Acknowledges(m)
  PROVE  /\ Hush(hw, gone, m[1], hw[Route(m[1], m[2])].v)
         /\ Route(m[1], m[2]) \in Fields
<1> DEFINE f == running.field[2]
           r == Route(f, role)
<1> TypeOK /\ ControlInv
  BY DEF Inv1
<1>1. /\ running # None /\ outcome.result = "ok" /\ running.field[1] = "mute" /\ running.v = TRUE
      /\ m[1] = f /\ m[2] = role /\ (running.follow \/ seen.hw[r].v = running.field[3])
      /\ \A x \in Fields : x[2] = f => who[x] # "other"
  BY DEF Acknowledges
<1>2. /\ running.field \in Fields /\ f \in FlowSet /\ running.field = Mute(f, running.field[3])
      /\ r \in Fields \ {Camera} /\ r[2] = f
  BY <1>1, RunningMute, RouteName
<1>3. InForce(running.field, running.v) /\ SeenCurrent
  BY <1>1 DEF AckInv, Acknowledging
<1>4. hw[Mute(f, running.field[3])].v = TRUE
  BY <1>1, <1>2, <1>3 DEF InForce
<1>5. hw[r].v = running.field[3]
  <2>1. CASE running.follow
    <3>1. InForce(r, running.field[3])
      BY <1>1, <2>1 DEF AckInv, Following
    <3> QED BY <1>1, <1>2, <3>1 DEF InForce
  <2>2. CASE seen.hw[r].v = running.field[3]
    <3>1. InForce(r, seen.hw[r].v)
      BY <1>2, <1>3 DEF SeenCurrent
    <3> QED BY <1>1, <1>2, <2>2, <3>1 DEF InForce
  <2> QED BY <1>1, <2>1, <2>2
<1> QED BY <1>1, <1>2, <1>4, <1>5 DEF Hush

\* The same devices are as silent.
LEMMA HushSame ==
  ASSUME TypeOK, MutedInv, NEW m \in muted, Hush(hw, gone, m[1], hw[Route(m[1], m[2])].v), gone' = gone,
         \A y \in Fields : hw'[y].v = hw[y].v
  PROVE  Hush(hw', gone', m[1], hw'[Route(m[1], m[2])].v)
<1> DEFINE f == m[1]
           r == Route(m[1], m[2])
           e == hw[r].v
<1>1. f \in FlowSet /\ r \in Fields /\ e \in Endpoints \cup {None}
  BY MutedRoute
<1>2. e # None => hw'[Mute(f, e)].v = hw[Mute(f, e)].v
  BY <1>1, FieldMembers
<1>3. Hush(hw', gone', f, e)
  BY <1>1, <1>2, HushKept
<1> QED BY <1>1, <1>3

LEMMA SilentHelper ==
  ASSUME Inv1, WasInv, AppliedInv, HonestInv, RunInv, MutedInv, UndoInv, LeftInv, SilentInv,
         HelperMoves, HelperQuiet, UNCHANGED outside
  PROVE  SilentInv'
<1> TypeOK /\ ControlInv
  BY DEF Inv1
<1>1. UNCHANGED <<at, outcome, muted, crossed, ranProfile>> /\ blind \subseteq blind'
  BY OutsideRuns, HelperWrites, MutateStep DEF HelperQuiet
<1>2. SUFFICES ASSUME ~Excused, NEW m \in muted PROVE Hush(hw', gone', m[1], hw'[Route(m[1], m[2])].v)
  <2>1. Excused => Excused'
    BY <1>1 DEF Excused
  <2> QED BY <1>1, <2>1 DEF SilentInv
<1>3. CASE Mutate
  BY <1>2, <1>3, SilentMutate
<1>4. CASE ~Mutate
  <2>1. gone' = gone /\ \A y \in Fields \ {Camera} : hw'[y].v = hw[y].v
    BY <1>4, HelperWrites
  <2>2. Hush(hw, gone, m[1], hw[Route(m[1], m[2])].v)
    BY <1>2 DEF SilentInv
  <2>3. Camera # Route(m[1], m[2]) /\ Camera # Mute(m[1], hw[Route(m[1], m[2])].v)
    BY CameraName, MuteName, RouteName
  <2> QED BY <2>1, <2>2, <2>3, HushAside
<1> QED BY <1>3, <1>4

LEMMA SilentComplete == ASSUME Inv1, MutedInv, AckInv, SilentInv, Complete PROVE SilentInv'
<1> TypeOK /\ ControlInv
  BY DEF Inv1
<1>1. at \in {"finished", "suspended"} /\ UNCHANGED <<hw, gone>>
  BY CompleteStep
<1>2. SUFFICES ASSUME NEW m \in muted', ~crossed' PROVE Hush(hw, gone, m[1], hw[Route(m[1], m[2])].v)
  BY <1>1 DEF SilentInv, Excused
<1>3. CASE m \in muted
  <2>1. ~crossed /\ ~(ranProfile /\ (~outcome.whole \/ blind # {}))
    BY <1>2, CompleteMuted
  <2> QED BY <1>3, <2>1 DEF SilentInv, Excused
<1>4. CASE Acknowledges(m)
  BY <1>1, <1>4, AcknowledgedIsSilent
<1> QED BY <1>2, <1>3, <1>4, CompleteMuted

LEMMA SilentNext ==
  ASSUME Inv1, WasInv, AppliedInv, HonestInv, RunInv, MutedInv, AckInv, UndoInv, LeftInv, SilentInv,
         [Next]_vars
  PROVE  SilentInv'
<1> TypeOK /\ ControlInv
  BY DEF Inv1
<1>1. CASE Unmoved /\ Wanes
  <2>1. /\ UNCHANGED <<hw, gone, blind, outcome>> /\ muted' \subseteq muted /\ crossed' = crossed
        /\ (at' = at /\ ranProfile' = ranProfile) \/ (at = "idle" /\ at' \in {"idle", "queued"})
    BY <1>1 DEF Unmoved, Wanes
  <2>2. Excused => Excused'
    BY <2>1 DEF Excused
  <2> QED BY <2>1, <2>2 DEF SilentInv
<1>2. CASE Complete
  BY <1>2, SilentComplete
<1>3. CASE (\E l \in Lanes : RunCommand(l)) \/ RunProfile \/ ApplyProfile \/ RunObserve
  <2>1. /\ at \in {"queued", "taken"} /\ gone' = gone /\ muted' = muted /\ (crossed => crossed')
        /\ \A x \in Fields : hw'[x].v = hw[x].v
    BY <1>3, Inv1Take, TakeRuns DEF Begun
  <2>2. Excused => Excused'
    BY <2>1 DEF Excused, RunInv
  <2>3. SUFFICES ASSUME ~Excused, NEW m \in muted PROVE Hush(hw', gone', m[1], hw'[Route(m[1], m[2])].v)
    BY <2>1, <2>2 DEF SilentInv
  <2>4. Hush(hw, gone, m[1], hw[Route(m[1], m[2])].v)
    BY <2>3 DEF SilentInv
  <2> QED BY <2>1, <2>4, HushSame
<1>4. CASE Followed \/ Answered \/ Suspended \/ ProfileDone
  <2>1. /\ UNCHANGED <<hw, gone, blind, ranProfile, muted, crossed>> /\ outcome'.whole = outcome.whole
        /\ at' \in {"command", "finished", "suspended"}
    BY <1>4, WorkerRuns, FollowedStep, AnsweredStep, ProfileDoneStep DEF WorkerQuiet
  <2>2. Excused => Excused'
    BY <2>1 DEF Excused
  <2> QED BY <2>1, <2>2 DEF SilentInv
<1>5. CASE TxStep /\ UNCHANGED outside
  <2>1. /\ UNCHANGED <<hw, gone, blind, ranProfile, muted, crossed>> /\ (outcome'.whole => outcome.whole)
        /\ at' \in {"stage", "rollback", "done"}
    BY <1>5, TxRuns, OutsideRuns DEF TxQuiet
  <2>2. Excused => Excused'
    BY <2>1 DEF Excused
  <2> QED BY <2>1, <2>2 DEF SilentInv
<1>6. CASE HelperMoves /\ HelperQuiet /\ UNCHANGED outside
  BY <1>6, SilentHelper
<1>7. CASE Elsewhen
  <2>1. UNCHANGED <<at, outcome, crossed, ranProfile>>
    BY <1>7, ElsewhenStep DEF HelperQuiet
  <2>2. SUFFICES ASSUME ~Excused', NEW m \in muted' PROVE Hush(hw', gone', m[1], hw'[Route(m[1], m[2])].v)
    BY DEF SilentInv
  <2>3. m \in muted /\ gone' = gone /\ blind' = blind
        /\ \A x \in Fields : x[2] = m[1] => hw'[x] = hw[x]
    BY <1>7, <2>2, KeptElsewhen
  <2>4. Hush(hw, gone, m[1], hw[Route(m[1], m[2])].v)
    BY <2>1, <2>2, <2>3 DEF SilentInv, Excused
  <2> DEFINE r == Route(m[1], m[2])
             e == hw[r].v
  <2>5. m[1] \in FlowSet /\ r \in Fields /\ r[2] = m[1] /\ e \in Endpoints \cup {None}
    BY <2>3, MutedRoute
  <2>6. hw'[r].v = e
    BY <2>3, <2>5
  <2>7. e # None => hw'[Mute(m[1], e)].v = hw[Mute(m[1], e)].v
    BY <2>3, <2>5, FieldMembers, MuteName
  <2>8. Hush(hw', gone', m[1], e)
    BY <2>3, <2>4, <2>5, <2>7, HushKept
  <2> QED BY <2>6, <2>8
<1> QED BY <1>1, <1>2, <1>3, <1>4, <1>5, <1>6, <1>7, MuteSteps

-----------------------------------------------------------------------------
(* What is asked for                                                        *)

\* No profile waits while one runs, and none has run when the next run is due.
ScheduledInv ==
  /\ AskedIsScheduled
  /\ ~(asked.profile # None /\ ranProfile /\ at # "idle")
  /\ at = "queued" => ~ranProfile

\* What was asked for flies, waits with the queued run, or is nothing.
LEMMA Scheduled ==
  ASSUME NEW b \in BOOLEAN, NEW q, Schedule(b, q)
  PROVE  \/ b /\ asked' = q /\ at' = at /\ UNCHANGED <<refused, ranProfile, stateKnown>>
         \/ ~b /\ ~HasPending(q) /\ asked' = q /\ at' = "idle" /\ UNCHANGED <<refused, ranProfile, stateKnown>>
         \/ ~b /\ asked' = q /\ at' = "queued" /\ ranProfile' = FALSE /\ refused' = refused
         \/ ~b /\ asked' = Nothing /\ at' = "idle" /\ refused' = TRUE
BY DEF Schedule

LEMMA NothingPends == ~HasPending(Nothing) /\ Nothing.busy = FALSE /\ Nothing.profile = None /\ Nothing.lane = NoLanes
                      /\ Nothing.observe = FALSE /\ Nothing.stop = FALSE
BY DEF HasPending, Nothing

LEMMA ScheduleKeeps ==
  ASSUME ScheduledInv, NEW b \in BOOLEAN, NEW q, Schedule(b, q), b => at # "idle",
         b => (q.busy <=> q.profile # None \/ ranProfile) /\ ~(q.profile # None /\ ranProfile),
         ~b => (q.busy <=> q.profile # None)
  PROVE  ScheduledInv'
<1>1. CASE b /\ asked' = q /\ at' = at /\ ranProfile' = ranProfile
  BY <1>1 DEF ScheduledInv, AskedIsScheduled
<1>2. CASE ~b /\ ~HasPending(q) /\ asked' = q /\ at' = "idle"
  BY <1>2 DEF ScheduledInv, AskedIsScheduled, HasPending
<1>3. CASE ~b /\ asked' = q /\ at' = "queued" /\ ranProfile' = FALSE
  BY <1>3 DEF ScheduledInv, AskedIsScheduled
<1>4. CASE asked' = Nothing /\ at' = "idle"
  BY <1>4, NothingPends DEF ScheduledInv, AskedIsScheduled, HasPending
<1> QED BY <1>1, <1>2, <1>3, <1>4, Scheduled

\* A view's request that leaves the profile alone.
LEMMA RequestKeeps ==
  ASSUME ScheduledInv, NEW q, q.busy = asked.busy, q.profile = asked.profile, Schedule(InFlight, q)
  PROVE  ScheduledInv'
<1>1. InFlight \in BOOLEAN /\ (InFlight <=> at # "idle")
  BY DEF InFlight
<1>2. /\ InFlight => (q.busy <=> q.profile # None \/ ranProfile) /\ ~(q.profile # None /\ ranProfile)
      /\ ~InFlight => (q.busy <=> q.profile # None)
  BY <1>1 DEF ScheduledInv, AskedIsScheduled
<1> QED BY <1>1, <1>2, ScheduleKeeps

LEMMA ScheduledUi == ASSUME TypeOK, ScheduledInv, User \/ Prepare \/ Changed PROVE ScheduledInv'
<1>1. AskedTyped(asked)
  BY TypeParts
<1>2. ASSUME NEW l \in Lanes, NEW field, NEW v, NEW rev, Submit(l, field, v, rev) PROVE ScheduledInv'
  <2> DEFINE c == [field |-> field, v |-> v, rev |-> rev, follow |-> asked.busy]
             q == [asked EXCEPT !.lane[l] = c]
  <2>1. Schedule(InFlight, q)
    BY <1>2 DEF Submit
  <2> HIDE DEF c
  <2>2. q.busy = asked.busy /\ q.profile = asked.profile
    BY <1>1 DEF AskedTyped
  <2> HIDE DEF q
  <2> QED BY <2>1, <2>2, RequestKeeps
<1>3. ASSUME NEW f \in FlowSet, Toggle(f) PROVE ScheduledInv'
  <2>1. [op |-> "switch", dev |-> f] \in Lanes
    BY FlowsAreDevices DEF Lanes
  <2> QED BY <1>2, <1>3, <2>1 DEF Toggle
<1>4. ASSUME NEW f \in FlowSet, NEW v \in Levels, Slide(f, v) PROVE ScheduledInv'
  <2>1. [op |-> "level", dev |-> f] \in Lanes
    BY DEF Lanes
  <2> QED BY <1>2, <1>4, <2>1 DEF Slide
<1>5. CASE ToggleCamera
  <2>1. [op |-> "switch", dev |-> "camera"] \in Lanes
    BY DEF Lanes, Devices
  <2> QED BY <1>2, <1>5, <2>1 DEF ToggleCamera
<1>6. ASSUME NEW p \in Profiles, SubmitProfile(p) PROVE ScheduledInv'
  <2> DEFINE lanes == [l \in Lanes |-> IF l.op = "level" THEN None ELSE asked.lane[l]]
             q == [asked EXCEPT !.profile = p, !.busy = TRUE,
                     !.lane = [l \in Lanes |-> IF l.op = "level" THEN None ELSE @[l]]]
  <2>1. Schedule(InFlight, q) /\ ~asked.busy
    BY <1>6 DEF SubmitProfile
  <2>2. q.profile = p /\ p # None
    BY <1>1, ProfileAssumption DEF AskedTyped
  <2>3. q.busy = TRUE
    BY <1>1 DEF AskedTyped
  <2> HIDE DEF q
  <2>4. InFlight \in BOOLEAN /\ (InFlight <=> at # "idle")
    BY DEF InFlight
  <2>5. InFlight => ~ranProfile
    BY <2>1, <2>4 DEF ScheduledInv, AskedIsScheduled
  <2> QED BY <2>1, <2>2, <2>3, <2>4, <2>5, ScheduleKeeps
<1>7. CASE SetSubscriberVisible
  <2>1. CASE visible
    <3> DEFINE q == [asked EXCEPT !.observe = FALSE, !.stop = TRUE]
    <3>1. Schedule(InFlight, q)
      BY <1>7, <2>1 DEF SetSubscriberVisible
    <3>2. q.busy = asked.busy /\ q.profile = asked.profile
      BY <1>1 DEF AskedTyped
    <3> HIDE DEF q
    <3> QED BY <3>1, <3>2, RequestKeeps
  <2>2. CASE ~visible
    <3>1. UNCHANGED <<asked, at, ranProfile>>
      BY <1>7, <2>2 DEF SetSubscriberVisible
    <3> QED BY <3>1 DEF ScheduledInv, AskedIsScheduled, HasPending
  <2> QED BY <2>1, <2>2
<1>8. CASE Prepare
  <2> DEFINE q == [asked EXCEPT !.observe = TRUE, !.stop = FALSE]
  <2>1. Schedule(InFlight, q)
    BY <1>8 DEF Prepare
  <2>2. q.busy = asked.busy /\ q.profile = asked.profile
    BY <1>1 DEF AskedTyped
  <2> HIDE DEF q
  <2> QED BY <2>1, <2>2, RequestKeeps
<1>9. CASE Changed
  <2>1. UNCHANGED <<asked, at, ranProfile>>
    BY <1>9 DEF Changed, txVars, runVars
  <2> QED BY <2>1 DEF ScheduledInv, AskedIsScheduled, HasPending
<1> QED BY <1>3, <1>4, <1>5, <1>6, <1>7, <1>8, <1>9 DEF User

LEMMA ScheduledComplete == ASSUME TypeOK, ScheduledInv, Complete PROVE ScheduledInv'
<1> DEFINE q == [asked EXCEPT !.busy = StillBusy]
<1>1. Schedule(FALSE, q) /\ at \in {"finished", "suspended"}
  BY DEF Complete
<1>2. StillBusy <=> asked.profile # None
  BY <1>1 DEF StillBusy, ScheduledInv, AskedIsScheduled
<1>3. StillBusy \in BOOLEAN
  BY DEF StillBusy
<1>4. AskedTyped(asked)
  BY TypeParts
<1> HIDE DEF StillBusy
<1>5. q.busy = StillBusy /\ q.profile = asked.profile
  BY <1>4 DEF AskedTyped
<1> HIDE DEF q
<1> QED BY <1>1, <1>2, <1>3, <1>5, ScheduleKeeps

LEMMA ScheduledTake ==
  ASSUME Inv1, ScheduledInv, (\E l \in Lanes : RunCommand(l)) \/ RunProfile \/ ApplyProfile \/ RunObserve
  PROVE  ScheduledInv'
<1>1. AskedTyped(asked) /\ at \in {"queued", "taken"} /\ at' \notin {"idle", "queued"}
  BY Inv1Take, TypeParts DEF Inv1, Begun
<1>2. at = "queued" => (asked.busy <=> asked.profile # None)
  BY <1>1 DEF ScheduledInv, AskedIsScheduled
<1>3. ASSUME NEW l \in Lanes, RunCommand(l) PROVE ScheduledInv'
  <2>1. asked' = [asked EXCEPT !.lane[l] = None] /\ ranProfile' = FALSE /\ at = "queued"
    BY <1>3 DEF RunCommand, Take
  <2>2. asked'.busy = asked.busy /\ asked'.profile = asked.profile
    BY <1>1, <2>1 DEF AskedTyped
  <2> QED BY <1>1, <1>2, <2>1, <2>2 DEF ScheduledInv, AskedIsScheduled
<1>4. CASE RunProfile
  <2>1. asked' = [asked EXCEPT !.profile = None] /\ ranProfile' = TRUE /\ asked.profile # None /\ at = "queued"
    BY <1>4 DEF RunProfile, Take
  <2>2. asked'.busy = asked.busy /\ asked'.profile = None
    BY <1>1, <2>1 DEF AskedTyped
  <2> QED BY <1>1, <1>2, <2>1, <2>2 DEF ScheduledInv, AskedIsScheduled
<1>5. CASE RunObserve
  <2>1. asked' = [asked EXCEPT !.observe = FALSE, !.stop = FALSE] /\ ranProfile' = FALSE /\ at = "queued"
    BY <1>5 DEF RunObserve, Take
  <2>2. asked'.busy = asked.busy /\ asked'.profile = asked.profile
    BY <1>1, <2>1 DEF AskedTyped
  <2> QED BY <1>1, <1>2, <2>1, <2>2 DEF ScheduledInv, AskedIsScheduled
<1>6. CASE ApplyProfile
  <2>1. at = "taken" /\ UNCHANGED <<asked, ranProfile>>
    BY <1>6, ApplyProfileStep DEF Inv1
  <2> QED BY <1>1, <2>1 DEF ScheduledInv, AskedIsScheduled
<1> QED BY <1>3, <1>4, <1>5, <1>6

LEMMA ScheduledNext == ASSUME Inv1, ScheduledInv, [Next]_vars PROVE ScheduledInv'
<1> TypeOK /\ ControlInv
  BY DEF Inv1
<1>1. ASSUME UNCHANGED <<asked, ranProfile>>, at' = at \/ (at # "idle" /\ at' \notin {"idle", "queued"})
      PROVE  ScheduledInv'
  BY <1>1 DEF ScheduledInv, AskedIsScheduled, HasPending
<1>2. CASE UNCHANGED vars
  BY <1>1, <1>2 DEF vars, txVars, runVars
<1>3. CASE User \/ Prepare \/ Changed
  BY <1>3, ScheduledUi
<1>4. CASE Complete
  BY <1>4, ScheduledComplete
<1>5. CASE (\E l \in Lanes : RunCommand(l)) \/ RunProfile \/ ApplyProfile \/ RunObserve
  BY <1>5, ScheduledTake
<1>6. CASE Followed \/ Answered \/ Suspended \/ ProfileDone
  <2>1. at \notin {"idle", "queued"} /\ at' \in {"command", "finished", "suspended"}
    BY <1>6, FollowedStep, AnsweredStep, ProfileDoneStep
  <2> QED BY <1>1, <1>6, <2>1, WorkerRuns
<1>7. CASE TxStep /\ UNCHANGED outside
  BY <1>1, <1>7, TxRuns, OutsideRuns
<1>8. CASE HelperStep /\ UNCHANGED <<published, time, txVars, outside>>
  BY <1>1, <1>8, OutsideRuns DEF txVars
<1>9. CASE Crash /\ UNCHANGED <<published, time, txVars, outside>>
  BY <1>1, <1>9, OutsideRuns DEF txVars
<1>10. CASE TimePasses /\ UNCHANGED outside
  BY <1>1, <1>10, OutsideRuns, TimeFrame DEF HelperQuiet
<1>11. CASE Elsewhen
  BY <1>1, <1>11, ElsewhenStep DEF HelperQuiet
<1> QED BY <1>2, <1>3, <1>4, <1>5, <1>6, <1>7, <1>8, <1>9, <1>10, <1>11, NextSteps DEF TxStep

LEMMA ScheduledInit == ASSUME Init PROVE ScheduledInv
<1>1. asked = Nothing /\ at = "idle"
  BY DEF Init
<1> QED BY <1>1, NothingPends DEF ScheduledInv, AskedIsScheduled, HasPending

-----------------------------------------------------------------------------
(* What is noticed                                                          *)

\* The inventory is going to be read again, or nobody is there to look at it.
Reread == ~visible \/ dirty \/ refused \/ asked.observe

StopNoticed == asked.stop => ~visible \/ dirty \/ refused

\* What the caller has read is what the devices are set to, or something will
\* tell: the helper's event, or the command that is out.
Tracked ==
  \/ ~seen.known
  \/ call # None /\ call.stage = "changed"
  \/ watching /\ (changed \/ Shows(seen))

\* The helper has answered in this run, and the run will show what it read.
HasRead ==
  \/ at \in {"first", "follow", "command", "observe"} /\ answer \in {"ok", "failed"}
  \/ at \in {"stage", "rollback", "done"}
  \/ at \in {"finished", "suspended"} /\ stateKnown

\* A run that knows nothing of the devices fails, or has no helper.
KnownInv ==
  /\ answer = "lost" => helper # "up"
  /\ at = "taken" => ~stateKnown
  /\ at \in {"first", "stage"} => outcome.known
  /\ at = "rollback" => outcome.result # "ok"
  /\ at = "done" /\ outcome.result = "ok" => outcome.known
  /\ at \in {"finished", "suspended"} /\ ~stateKnown /\ outcome.result = "ok" => helper # "up"

\* The helper's notifications end only where they will be asked for again.
WatchInv ==
  /\ StopNoticed
  /\ at = "suspend" => Reread
  /\ HasRead /\ helper = "up" => Reread \/ Tracked

NoticeInv == KnownInv /\ WatchInv /\ ChangeIsNoticed

\* What the UI thread does to the views' knowledge.
Watched ==
  /\ \/ at' = at /\ stateKnown' = stateKnown
     \/ at = "idle" /\ at' \in {"idle", "queued"}
  /\ refused => refused'
  /\ Reread => Reread'
  /\ StopNoticed => StopNoticed'
  /\ visible' => visible \/ dirty'
  /\ (armed' = armed /\ changed' = changed) \/ ~visible' \/ dirty'
  /\ watching' = watching

\* A request only adds to what is asked for.
LEMMA RequestWatched ==
  ASSUME NEW q, q.observe = asked.observe \/ q.observe = TRUE, q.stop = asked.stop \/ q.stop = FALSE,
         Schedule(InFlight, q), UNCHANGED <<visible, armed, changed, watching>>,
         dirty' = dirty \/ (q.observe = TRUE /\ q.stop = FALSE)
  PROVE  Watched
<1>1. InFlight \in BOOLEAN /\ (InFlight <=> at # "idle")
  BY DEF InFlight
<1> DEFINE Goes == (at' = at /\ stateKnown' = stateKnown) \/ (at = "idle" /\ at' \in {"idle", "queued"})
<1>2. (asked' = q /\ refused' = refused /\ Goes) \/ (asked' = Nothing /\ refused' = TRUE /\ Goes)
  BY <1>1, Scheduled
<1>3. CASE asked' = Nothing /\ refused' = TRUE /\ Goes
  BY <1>3 DEF Watched, Reread, StopNoticed
<1>4. CASE asked' = q /\ refused' = refused /\ Goes
  <2>1. /\ asked'.observe = q.observe /\ asked'.stop = q.stop
    BY <1>4
  <2>2. Reread => Reread'
    BY <1>4, <2>1 DEF Reread
  <2>3. StopNoticed => StopNoticed'
    BY <1>4, <2>1 DEF StopNoticed
  <2> QED BY <1>4, <2>2, <2>3 DEF Watched
<1> QED BY <1>2, <1>3, <1>4

LEMMA SubmitWatched ==
  ASSUME TypeOK, NEW l \in Lanes, NEW field, NEW v, NEW rev, Submit(l, field, v, rev)
  PROVE  Watched
<1> DEFINE c == [field |-> field, v |-> v, rev |-> rev, follow |-> asked.busy]
           q == [asked EXCEPT !.lane[l] = c]
<1>1. Schedule(InFlight, q) /\ UNCHANGED <<visible, dirty, armed, changed, watching>>
  BY DEF Submit, OnUi, link
<1> HIDE DEF c
<1>2. q.observe = asked.observe /\ q.stop = asked.stop
  BY TypeParts DEF AskedTyped
<1> HIDE DEF q
<1> QED BY <1>1, <1>2, RequestWatched

LEMMA UiWatched == ASSUME TypeOK, User \/ Prepare \/ Changed PROVE Watched
<1>1. AskedTyped(asked)
  BY TypeParts
<1>2. ASSUME NEW f \in FlowSet, Toggle(f) PROVE Watched
  <2>1. [op |-> "switch", dev |-> f] \in Lanes
    BY FlowsAreDevices DEF Lanes
  <2> QED BY SubmitWatched, <1>2, <2>1 DEF Toggle
<1>3. ASSUME NEW f \in FlowSet, NEW v \in Levels, Slide(f, v) PROVE Watched
  <2>1. [op |-> "level", dev |-> f] \in Lanes
    BY DEF Lanes
  <2> QED BY SubmitWatched, <1>3, <2>1 DEF Slide
<1>4. CASE ToggleCamera
  <2>1. [op |-> "switch", dev |-> "camera"] \in Lanes
    BY DEF Lanes, Devices
  <2> QED BY SubmitWatched, <1>4, <2>1 DEF ToggleCamera
<1>5. ASSUME NEW p \in Profiles, SubmitProfile(p) PROVE Watched
  <2> DEFINE q == [asked EXCEPT !.profile = p, !.busy = TRUE,
                     !.lane = [l \in Lanes |-> IF l.op = "level" THEN None ELSE @[l]]]
  <2>1. Schedule(InFlight, q) /\ UNCHANGED <<visible, dirty, armed, changed, watching>>
    BY <1>5 DEF SubmitProfile, OnUi, link
  <2>2. q.observe = asked.observe /\ q.stop = asked.stop
    BY <1>1 DEF AskedTyped
  <2> HIDE DEF q
  <2> QED BY <2>1, <2>2, RequestWatched
<1>6. CASE SetSubscriberVisible
  <2>1. CASE visible
    <3>1. visible' = FALSE /\ watching' = watching
      BY <1>6, <2>1 DEF SetSubscriberVisible, OnUi, link
    <3>2. Schedule(InFlight, [asked EXCEPT !.observe = FALSE, !.stop = TRUE])
      BY <1>6, <2>1 DEF SetSubscriberVisible
    <3>3. InFlight \in BOOLEAN /\ (InFlight <=> at # "idle")
      BY DEF InFlight
    <3>4. /\ (at' = at /\ stateKnown' = stateKnown) \/ (at = "idle" /\ at' \in {"idle", "queued"})
          /\ refused => refused'
      BY <3>2, <3>3, Scheduled
    <3> QED BY <3>1, <3>4 DEF Watched, Reread, StopNoticed
  <2>2. CASE ~visible
    <3>1. UNCHANGED <<asked, at, stateKnown, refused, armed, changed, watching>> /\ dirty' = TRUE
      BY <1>6, <2>2 DEF SetSubscriberVisible, OnUi, link
    <3> QED BY <3>1 DEF Watched, Reread, StopNoticed
  <2> QED BY <2>1, <2>2
<1>7. CASE Prepare
  <2> DEFINE q == [asked EXCEPT !.observe = TRUE, !.stop = FALSE]
  <2>1. Schedule(InFlight, q) /\ UNCHANGED <<visible, armed, changed, watching>>
    BY <1>7 DEF Prepare, OnUi, link
  <2>2. q.observe = TRUE /\ q.stop = FALSE
    BY <1>1 DEF AskedTyped
  <2> HIDE DEF q
  <2> QED BY <2>1, <2>2, RequestWatched
<1>8. CASE Changed
  <2>1. UNCHANGED <<asked, at, stateKnown, refused, visible, watching>> /\ dirty' = TRUE
    BY <1>8 DEF Changed, txVars, runVars
  <2> QED BY <2>1 DEF Watched, Reread, StopNoticed
<1> QED BY <1>2, <1>3, <1>4, <1>5, <1>6, <1>7, <1>8 DEF User

LEMMA TrackedSame ==
  ASSUME Tracked, UNCHANGED <<hw, gone, watching, changed, seen>>,
         UNCHANGED call \/ call = None
  PROVE  Tracked'
BY DEF Tracked, Shows

LEMMA NoticeUi == ASSUME Inv1, ScheduledInv', NoticeInv, User \/ Prepare \/ Changed PROVE NoticeInv'
<1>1. Watched /\ Still
  BY UiWatched, UiStep DEF Inv1
<1>2. KnownInv'
  BY <1>1 DEF Watched, Still, KnownInv, NoticeInv
<1>3. WatchInv'
  <2>1. Tracked => Tracked' \/ Reread'
    <3>1. CASE changed' = changed
      BY <1>1, <3>1, TrackedSame DEF Watched, Still
    <3>2. CASE ~visible' \/ dirty'
      BY <3>2 DEF Reread
    <3> QED BY <1>1, <3>1, <3>2 DEF Watched
  <2>2. HasRead' => HasRead
    BY <1>1 DEF Watched, Still, HasRead
  <2>3. at' = "suspend" => at = "suspend"
    BY <1>1 DEF Watched
  <2> QED BY <1>1, <2>1, <2>2, <2>3 DEF Watched, Still, WatchInv, NoticeInv
<1>4. ChangeIsNoticed'
  <2> SUFFICES ASSUME at' = "idle", visible', ~refused', helper' = "up", shown'.inv.known, ~dirty'
               PROVE  armed' /\ watching' /\ (changed' \/ Shows(shown.inv)')
    BY DEF ChangeIsNoticed
  <2>1. at = "idle" /\ ~refused /\ helper = "up" /\ shown.inv.known /\ visible /\ ~asked'.observe
    BY <1>1 DEF Watched, Still, ScheduledInv, AskedIsScheduled, HasPending
  <2>2. ~dirty
    BY <1>1, <2>1 DEF Watched, Reread
  <2>3. armed /\ watching /\ (changed \/ Shows(shown.inv))
    BY <2>1, <2>2 DEF NoticeInv, ChangeIsNoticed
  <2>4. armed' = armed /\ changed' = changed /\ watching' = watching
    BY <1>1 DEF Watched
  <2> QED BY <1>1, <2>3, <2>4 DEF Still, Shows
<1> QED BY <1>2, <1>3, <1>4 DEF NoticeInv

\* What is shown when a run ends.
LEMMA CompleteShown ==
  ASSUME TypeOK, Complete
  PROVE  /\ stateKnown => shown'.inv = seen
         /\ ~stateKnown /\ shown'.inv.known => outcome.result = "ok"
<1>1. shown' = IF stateKnown THEN [inv |-> seen, role |-> ShownRole]
               ELSE [shown EXCEPT !.inv.known = @ /\ outcome.result = "ok"]
  BY DEF Complete
<1>2. stateKnown => shown'.inv = seen
  BY <1>1
<1>3. ASSUME ~stateKnown, shown'.inv.known PROVE outcome.result = "ok"
  <2> DEFINE k == shown.inv.known /\ outcome.result = "ok"
  <2>1. shown' = [shown EXCEPT !.inv.known = k]
    BY <1>1, <1>3
  <2>2. shown = [inv |-> shown.inv, role |-> shown.role]
        /\ shown.inv = [hw |-> shown.inv.hw, gone |-> shown.inv.gone, known |-> shown.inv.known]
    BY DEF TypeOK, CoordinatorTypes
  <2> HIDE DEF k
  <2>3. shown'.inv = [shown.inv EXCEPT !.known = k]
    BY <2>1, <2>2
  <2>4. shown'.inv.known = k
    BY <2>2, <2>3
  <2>5. k
    BY <1>3, <2>4
  <2> QED BY <2>5 DEF k
<1> QED BY <1>2, <1>3

LEMMA NoticeComplete == ASSUME Inv1, NoticeInv, Complete PROVE NoticeInv'
<1> DEFINE q == [asked EXCEPT !.busy = StillBusy]
<1>1. /\ at \in {"finished", "suspended"} /\ armed' = Rearmed /\ Schedule(FALSE, q)
      /\ UNCHANGED <<hw, gone, helper, watching, changed, call, answer, seen, visible, dirty>>
  BY DEF Complete, link
<1>2. AskedTyped(asked) /\ call = None /\ answer = "none"
  BY <1>1, TypeParts DEF Inv1, ControlInv
<1>3. q.observe = asked.observe /\ q.stop = asked.stop
  BY <1>2 DEF AskedTyped
<1> HIDE DEF q
<1>4. \/ ~HasPending(q) /\ asked' = q /\ at' = "idle" /\ refused' = refused
      \/ asked' = q /\ at' = "queued" /\ refused' = refused
      \/ asked' = Nothing /\ at' = "idle" /\ refused' = TRUE
  BY <1>1, Scheduled
<1>5. at' \in {"idle", "queued"} /\ (refused => refused')
  BY <1>4
<1>6. KnownInv' /\ ~HasRead'
  BY <1>1, <1>2, <1>5 DEF KnownInv, HasRead
<1>7. StopNoticed'
  <2>1. CASE refused'
    BY <2>1 DEF StopNoticed
  <2>2. CASE asked' = q /\ refused' = refused
    <3>1. StopNoticed /\ asked'.stop = asked.stop
      BY <1>3, <2>2 DEF NoticeInv, WatchInv
    <3> QED BY <1>1, <2>2, <3>1 DEF StopNoticed
  <2> QED BY <1>4, <2>1, <2>2
<1>8. ChangeIsNoticed'
  <2> SUFFICES ASSUME at' = "idle", visible', ~refused', helper' = "up", shown'.inv.known, ~dirty'
               PROVE  armed' /\ watching' /\ (changed' \/ Shows(shown.inv)')
    BY DEF ChangeIsNoticed
  <2>1. visible /\ ~refused /\ helper = "up" /\ ~dirty /\ ~HasPending(q)
    BY <1>1, <1>4, <1>5
  <2>2. ~asked.observe
    BY <1>3, <2>1 DEF HasPending
  <2>3. stateKnown /\ shown'.inv = seen
    BY <1>1, <2>1, CompleteShown DEF Inv1, NoticeInv, KnownInv
  <2>4. Tracked
    BY <1>1, <2>1, <2>2, <2>3 DEF NoticeInv, WatchInv, HasRead, Reread
  <2>5. watching /\ (changed \/ Shows(seen))
    BY <1>2, <2>3, <2>4 DEF Tracked
  <2>6. armed'
    BY <1>1, <2>1 DEF Rearmed
  <2> QED BY <1>1, <2>3, <2>5, <2>6 DEF Shows
<1> QED BY <1>5, <1>6, <1>7, <1>8 DEF NoticeInv, WatchInv

LEMMA NoticeTake ==
  ASSUME Inv1, NoticeInv, (\E l \in Lanes : RunCommand(l)) \/ RunProfile \/ ApplyProfile \/ RunObserve
  PROVE  NoticeInv'
<1>1. /\ at \in {"queued", "taken"}
      /\ at' \in {"taken", "first", "follow", "command", "observe", "suspend", "finished", "suspended"}
      /\ answer' = "none" /\ AskedTyped(asked)
  BY Inv1Take, TypeParts DEF Begun, Inv1
<1>2. /\ UNCHANGED <<visible, dirty, refused>>
      /\ stateKnown' = FALSE \/ (ApplyProfile /\ stateKnown' = stateKnown)
  BY DEF RunCommand, RunProfile, ApplyProfile, RunObserve, Take, uiVars, runVars
<1>11. ~stateKnown'
  <2>1. ApplyProfile => at = "taken"
    BY DEF ApplyProfile
  <2> QED BY <1>2, <2>1 DEF NoticeInv, KnownInv
<1>3. ~HasRead' /\ ChangeIsNoticed'
  BY <1>1, <1>11 DEF HasRead, ChangeIsNoticed
<1>4. StopNoticed
  BY DEF NoticeInv, WatchInv
<1>5. asked'.stop => asked.stop
  <2>1. ASSUME NEW l \in Lanes, RunCommand(l) PROVE asked'.stop = asked.stop
    <3>1. asked' = [asked EXCEPT !.lane[l] = None]
      BY <2>1 DEF RunCommand, Take
    <3> QED BY <1>1, <3>1 DEF AskedTyped
  <2>2. CASE RunProfile
    <3>1. asked' = [asked EXCEPT !.profile = None]
      BY <2>2 DEF RunProfile, Take
    <3> QED BY <1>1, <3>1 DEF AskedTyped
  <2>3. CASE RunObserve
    <3>1. asked' = [asked EXCEPT !.observe = FALSE, !.stop = FALSE]
      BY <2>3 DEF RunObserve, Take
    <3>2. asked'.stop = FALSE
      BY <1>1, <3>1 DEF AskedTyped
    <3> QED BY <3>2
  <2>4. CASE ApplyProfile
    BY <2>4, ApplyProfileStep DEF Inv1
  <2> QED BY <2>1, <2>2, <2>3, <2>4
<1>6. StopNoticed'
  BY <1>2, <1>4, <1>5 DEF StopNoticed
<1>7. NotRun => outcome'.result = "lost"
  BY NoOutcomeFacts, OutcomeResult DEF NotRun, Results
<1>8. NoOutcome.known /\ NoOutcome.result = "ok"
  BY DEF NoOutcome
<1>9. KnownInv' /\ (at' = "suspend" => Reread')
  <2>1. ASSUME NEW l \in Lanes, RunCommand(l) PROVE at' \in {"finished", "suspended"} => NotRun
    BY <2>1 DEF RunCommand
  <2>2. CASE RunProfile
    <3>1. at' = "taken"
      BY <2>2 DEF RunProfile
    <3> QED BY <1>1, <1>11, <3>1 DEF KnownInv
  <2>6. CASE ApplyProfile
    <3>1. (at' = "finished" /\ NotRun) \/ (at' = "first" /\ outcome' = NoOutcome)
      BY <2>6 DEF ApplyProfile, Begin, NotRun
    <3> QED BY <1>1, <1>7, <1>8, <3>1 DEF KnownInv
  <2>3. CASE RunObserve
    <3>1. \/ at' \in {"finished", "suspended"} /\ NotRun
          \/ at' \in {"finished", "suspended"} /\ helper # "up" /\ helper' = helper
          \/ at' = "suspend" /\ asked.stop
          \/ at' = "observe"
      BY <2>3 DEF RunObserve, NotRun
    <3>2. at' = "suspend" => Reread'
      BY <1>2, <1>4, <3>1 DEF StopNoticed, Reread
    <3> QED BY <1>1, <1>7, <3>1, <3>2 DEF KnownInv
  <2>4. ASSUME NEW l \in Lanes, RunCommand(l) PROVE at' \in {"finished", "suspended", "follow", "command"}
    BY <2>4, RunCommandStep DEF Inv1
  <2>5. ASSUME NEW l \in Lanes, RunCommand(l) PROVE KnownInv' /\ (at' = "suspend" => Reread')
    BY <1>1, <1>7, <2>1, <2>4, <2>5 DEF KnownInv
  <2> QED BY <2>2, <2>3, <2>5, <2>6
<1> QED BY <1>3, <1>6, <1>9 DEF NoticeInv, WatchInv

\* What a run leaves alone of the views when it ends.
LEMMA NoticeEnds ==
  ASSUME Inv1, NoticeInv, Followed \/ Answered \/ Suspended \/ ProfileDone
  PROVE  NoticeInv'
<1> TypeOK /\ ControlInv
  BY DEF Inv1
<1>1. UNCHANGED <<hw, gone, seen, changed, asked, visible, dirty, refused>>
  BY DEF Followed, Answered, Suspended, ProfileDone, Worker, uiVars
<1>2. /\ at \in {"follow", "command", "observe", "suspend", "done"} /\ at' \in {"command", "finished", "suspended"}
      /\ answer' = "none" /\ call = None
      /\ at' = "command" => at = "follow"
  BY FollowedStep, AnsweredStep, ProfileDoneStep
<1>3. StopNoticed' /\ (Reread => Reread') /\ ChangeIsNoticed'
  BY <1>1, <1>2 DEF NoticeInv, WatchInv, StopNoticed, Reread, ChangeIsNoticed
<1>4. ASSUME NEW r \in Results, NEW k, EndRun(r, k)
      PROVE  /\ outcome'.result = r
             /\ stateKnown' => k /\ r # "lost"
             /\ ~stateKnown' /\ k /\ r = "ok" => helper # "up"
  <2>1. outcome'.result = r
    BY <1>4, EndRunStep, TypeParts
  <2>2. stateKnown' = (k /\ helper = "up" /\ r \notin {"lost", "late", "superseded"})
    BY <1>4 DEF EndRun
  <2> QED BY <2>1, <2>2
<1>5. CASE at' = "command"
  BY <1>2, <1>3, <1>5 DEF NoticeInv, KnownInv, WatchInv, HasRead
<1> SUFFICES ASSUME at' \in {"finished", "suspended"} PROVE KnownInv' /\ (HasRead' /\ helper' = "up" => Reread' \/ Tracked')
  BY <1>2, <1>3, <1>5 DEF NoticeInv, WatchInv
<1>6. /\ (~stateKnown' /\ outcome'.result = "ok" => helper' # "up") => KnownInv'
      /\ HasRead' => stateKnown'
      /\ (stateKnown' /\ helper' = "up" => Reread \/ Tracked') => (HasRead' /\ helper' = "up" => Reread' \/ Tracked')
  BY <1>2, <1>3 DEF KnownInv, HasRead
<1>7. watching' = watching => (Tracked => Tracked')
  BY <1>1, <1>2, TrackedSame
<1>8. HasRead /\ helper = "up" => Reread \/ Tracked
  BY DEF NoticeInv, WatchInv
<1>9. CASE Followed \/ Answered
  <2>1. answer # "none" /\ at # "suspend" /\ UNCHANGED <<helper, watching>>
    BY <1>9 DEF Followed, Answered
  <2>2. /\ stateKnown' => answer # "lost"
        /\ ~stateKnown' /\ outcome'.result = "ok" => helper # "up"
    <3>1. CASE Followed
      <4>1. \E r \in Results : EndRun(r, TRUE) /\ (r = answer \/ (r = "failed" /\ answer = "ok"))
        BY <1>9, <3>1, <2>1, AnswersAreResults DEF Followed, Results
      <4> QED BY <1>4, <4>1
    <3>2. CASE Answered
      <4>1. EndRun(answer, TRUE) /\ answer \in Results
        BY <2>1, <3>2, TypeParts DEF Answered, Results
      <4> QED BY <1>4, <4>1
    <3> QED BY <1>9, <3>1, <3>2
  <2>3. stateKnown' => HasRead
    BY <1>2, <2>1, <2>2, TypeParts, <1>9 DEF HasRead, Followed, Answered
  <2> QED BY <1>6, <1>7, <1>8, <2>1, <2>2, <2>3
<1>10. CASE Suspended
  <2>1. at = "suspend" /\ EndRun(answer, TRUE) /\ answer \in Results
    BY <1>10, TypeParts DEF Suspended, Results
  <2>2. helper' # "up" \/ helper' = helper
    BY <1>10 DEF Suspended
  <2>3. Reread
    BY <2>1 DEF NoticeInv, WatchInv
  <2> QED BY <1>4, <1>6, <2>1, <2>2, <2>3
<1>11. CASE ProfileDone
  <2>1. at = "done" /\ EndRun(outcome.result, outcome.known) /\ UNCHANGED <<helper, watching>>
        /\ outcome.result \in Results
    BY <1>11, TypeParts, OutcomeFields DEF ProfileDone
  <2>2. ~stateKnown' /\ outcome'.result = "ok" => helper # "up"
    BY <1>4, <2>1 DEF NoticeInv, KnownInv
  <2>3. HasRead
    BY <2>1 DEF HasRead
  <2> QED BY <1>6, <1>7, <1>8, <2>1, <2>2, <2>3
<1> QED BY <1>9, <1>10, <1>11

\* What a transaction reports as known, and that a rollback reports a failure.
LEMMA KnownTx == ASSUME TypeOK, ControlInv, KnownInv, TxStep, helper' = helper, answer' = "none" PROVE KnownInv'
<1>1. outcome \in Outcomes
  BY TypeParts
<1>2. ASSUME NEW o \in Outcomes, NEW r \in Results PROVE [o EXCEPT !.result = r].result = r
  BY <1>2, OutcomeResult
<1>3. ASSUME NEW o \in Outcomes, NEW r \in Results, NEW k PROVE [o EXCEPT !.result = r, !.known = k].result = r
  BY <1>3 DEF Outcomes
<1>4. CASE Preflight
  <2>1. \/ at' = "stage" /\ at = "first" /\ outcome' = outcome
        \/ /\ at' = "done"
           /\ \E r \in {"lost", "failed"} : outcome' = [outcome EXCEPT !.result = r, !.known = answer # "lost"]
    BY <1>4 DEF Preflight, Finish
  <2>2. CASE /\ at' = "done"
             /\ \E r \in {"lost", "failed"} : outcome' = [outcome EXCEPT !.result = r, !.known = answer # "lost"]
    <3>1. PICK r \in {"lost", "failed"} : outcome' = [outcome EXCEPT !.result = r, !.known = answer # "lost"]
      BY <2>2
    <3> DEFINE k == answer # "lost"
    <3>2. outcome' = [outcome EXCEPT !.result = r, !.known = k] /\ r \in Results
      BY <3>1 DEF Results
    <3> HIDE DEF k
    <3>3. outcome'.result = r
      BY <1>1, <1>3, <3>2
    <3> QED BY <2>2, <3>3 DEF KnownInv
  <2> QED BY <2>1, <2>2 DEF KnownInv
<1>5. CASE RunStage
  <2>1. /\ at = "stage"
        /\ \/ at' = "stage" /\ outcome' = outcome
           \/ /\ at' = "rollback"
              /\ \E r \in {"failed", "superseded", "late"} : outcome' = [outcome EXCEPT !.result = r]
    BY <1>5 DEF RunStage, InStage, GiveUp
  <2>2. at' = "rollback" => outcome'.result # "ok"
    BY <1>1, <1>2, <2>1 DEF Results
  <2> QED BY <2>1, <2>2 DEF KnownInv
<1>6. CASE StageAnswered
  <2>1. at = "stage" /\ answer # "none" /\ outcome.known
    BY <1>6 DEF StageAnswered, KnownInv
  <2>2. CASE at' = "stage"
    BY <1>6, <2>2, StageAnsweredStep, <2>1 DEF StageApplied, StageMismatched, StageSucceeded, StageFailed, KnownInv
  <2>3. CASE at' = "done"
    <3>1. outcome' = [outcome EXCEPT !.applied = TRUE]
      BY <1>6, <2>1, <2>3 DEF StageAnswered, Finish, GiveUp
    <3>2. outcome'.known = outcome.known
      BY <1>1, <3>1 DEF Outcomes
    <3> QED BY <2>1, <2>3, <3>2 DEF KnownInv
  <2>4. CASE at' = "rollback"
    <3> DEFINE k == outcome.known /\ answer # "lost"
    <3>1. \/ outcome' = [outcome EXCEPT !.result = "failed"]
          \/ answer # "ok" /\ outcome' = [outcome EXCEPT !.result = answer, !.known = k]
          \/ /\ answer # "ok"
             /\ \E v : outcome' = [[outcome EXCEPT !.result = answer, !.known = k] EXCEPT !.whole = v]
      BY <1>6, <2>4 DEF StageAnswered, GiveUp, Finish, Succeeded
    <3>2. answer \in Results /\ "failed" \in Results
      BY <2>1, TypeParts DEF Results
    <3> HIDE DEF k
    <3>3. ASSUME NEW v PROVE [[outcome EXCEPT !.result = answer, !.known = k] EXCEPT !.whole = v].result = answer
      BY <1>1, <3>2 DEF Outcomes
    <3>4. CASE outcome' = [outcome EXCEPT !.result = "failed"]
      <4>1. outcome'.result = "failed"
        BY <1>1, <1>2, <3>2, <3>4
      <4> QED BY <2>4, <4>1 DEF KnownInv
    <3>5. CASE answer # "ok" /\ outcome' = [outcome EXCEPT !.result = answer, !.known = k]
      <4>1. outcome'.result = answer
        BY <1>1, <1>3, <3>2, <3>5
      <4> QED BY <2>4, <3>5, <4>1 DEF KnownInv
    <3>6. CASE /\ answer # "ok"
               /\ \E v : outcome' = [[outcome EXCEPT !.result = answer, !.known = k] EXCEPT !.whole = v]
      <4>1. outcome'.result = answer
        BY <3>3, <3>6
      <4> QED BY <2>4, <3>6, <4>1 DEF KnownInv
    <3> QED BY <3>1, <3>4, <3>5, <3>6
  <2> QED BY <1>6, <2>2, <2>3, <2>4, StageAnsweredStep DEF StageApplied, StageMismatched, StageSucceeded, StageFailed
<1>7. CASE Compensate \/ Compensated
  <2>1. at = "rollback" /\ at' \in {"rollback", "done"} /\ outcome.result # "ok"
    BY <1>7, CompensateStep, CompensatedStep DEF CompensateEnds, CompensateSends, CompensateSkips, KnownInv
  <2>2. \/ outcome' = outcome
        \/ outcome' = [outcome EXCEPT !.whole = FALSE]
        \/ outcome' = [outcome EXCEPT !.whole = @ /\ answer = "ok", !.known = @ /\ answer # "lost"]
    BY <1>7 DEF Compensate, Compensated, Finish, Undone
  <2>3. outcome'.result = outcome.result
    BY <1>1, <2>2 DEF Outcomes
  <2> QED BY <2>1, <2>3 DEF KnownInv
<1> QED BY <1>4, <1>5, <1>6, <1>7 DEF TxStep

LEMMA NoticeTx == ASSUME Inv1, NoticeInv, TxStep, UNCHANGED outside PROVE NoticeInv'
<1> TypeOK /\ ControlInv
  BY DEF Inv1
<1>1. /\ at \in {"first", "stage", "rollback"} /\ at' \in {"stage", "rollback", "done"}
      /\ answer' = "none" /\ TxQuiet /\ call = None
  BY TxRuns
<1>2. UNCHANGED <<hw, gone, helper, watching, changed, seen, visible, dirty, refused, asked>>
  BY DEF TxStep, Preflight, RunStage, StageAnswered, Compensate, Compensated, Undisturbed, world, outside, uiVars
<1>3. KnownInv'
  BY <1>1, <1>2, KnownTx DEF NoticeInv
<1>4. StopNoticed' /\ (Reread => Reread') /\ ChangeIsNoticed'
  BY <1>1, <1>2 DEF NoticeInv, WatchInv, StopNoticed, Reread, ChangeIsNoticed
<1>5. at = "first" => answer # "none"
  BY <1>1, PreflightStep, RunStageStep, StageAnsweredStep, CompensateStep, CompensatedStep DEF TxStep
<1>6. helper = "up" => HasRead
  BY <1>1, <1>5, TypeParts DEF HasRead, NoticeInv, KnownInv
<1>7. Tracked => Tracked'
  BY <1>1, <1>2, TrackedSame
<1> QED BY <1>1, <1>2, <1>3, <1>4, <1>6, <1>7 DEF NoticeInv, WatchInv

\* The helper's steps.
LEMMA NoticeHelper == ASSUME Inv1, NoticeInv, HelperMoves, HelperQuiet, UNCHANGED outside PROVE NoticeInv'
<1> TypeOK /\ ControlInv
  BY DEF Inv1
<1>1. UNCHANGED <<at, outcome, asked, shown, visible, dirty, refused, armed, stateKnown>>
  BY DEF HelperQuiet, outside, uiVars, runVars
<1>2. StopNoticed' /\ (Reread => Reread') /\ (at' = "suspend" => Reread')
  BY <1>1 DEF NoticeInv, WatchInv, StopNoticed, Reread
<1>3. (helper' = helper /\ (answer' = "lost" => answer = "lost")) \/ helper' # "up"
  BY DEF HelperMoves, Compare, Mutate, Refuse, ReadBack, ReadBackFails, Suspend, Lose, Crash, Ended
<1>4. KnownInv'
  BY <1>1, <1>3 DEF NoticeInv, KnownInv
<1>5. at = "idle" => helper' # "up"
  <2>1. call = None => Crash
    BY DEF HelperMoves, Compare, Mutate, Refuse, ReadBack, ReadBackFails, Suspend, Lose, Commanded, Served
  <2> QED BY <2>1 DEF ControlInv, Crash, Ended
<1>6. ChangeIsNoticed'
  BY <1>1, <1>5 DEF ChangeIsNoticed
<1>7. ASSUME HasRead', helper' = "up" PROVE Reread' \/ Tracked'
  <2>1. CASE Mutate
    <3>1. call' # None /\ call'.stage = "changed"
      BY <2>1, MutateStep
    <3> QED BY <3>1 DEF Tracked
  <2>2. CASE Refuse
    <3>1. call # None /\ call.stage \in {"sent", "checked"} /\ UNCHANGED <<hw, gone, helper, watching, changed, answer, seen>>
      BY <2>2, RefuseStep DEF Refuse
    <3>2. HasRead /\ helper = "up"
      BY <1>1, <1>7, <3>1 DEF HasRead
    <3> QED BY <1>2, <3>1, <3>2 DEF NoticeInv, WatchInv, Tracked, Shows
  <2>7. CASE Compare
    <3>1. call # None /\ call.stage = "sent" /\ watching' = TRUE
          /\ UNCHANGED <<hw, gone, helper, changed, answer, seen>>
      BY <2>7, CompareStep
    <3>2. HasRead /\ helper = "up"
      BY <1>1, <1>7, <3>1 DEF HasRead
    <3> QED BY <1>2, <3>1, <3>2 DEF NoticeInv, WatchInv, Tracked, Shows
  <2>3. CASE ReadBack
    <3>1. seen'.hw = hw' /\ seen'.gone = gone' /\ watching'
      BY <2>3, ReadBackStep DEF ReadBack
    <3> QED BY <3>1 DEF Tracked, Shows
  <2>4. CASE ReadBackFails
    <3>1. seen' = [seen EXCEPT !.known = FALSE]
      BY <2>4 DEF ReadBackFails
    <3>2. seen'.known = FALSE
      BY <3>1 DEF TypeOK, HelperTypes
    <3> QED BY <3>2 DEF Tracked
  <2>5. CASE Suspend
    <3>1. call # None /\ call.op = "suspend"
      BY <2>5, SuspendStep
    <3>2. at = "suspend"
      <4>1. at = "stage" => call.op \in {"observe", "set"}
        BY <3>1 DEF ControlInv, StageCall
      <4> QED BY <3>1, <4>1 DEF ControlInv
    <3> QED BY <1>1, <1>7, <3>2 DEF HasRead
  <2>6. CASE Lose \/ Crash
    BY <1>7, <2>6 DEF Lose, Crash, Ended
  <2> QED BY <2>1, <2>2, <2>3, <2>4, <2>5, <2>6, <2>7 DEF HelperMoves
<1> QED BY <1>2, <1>4, <1>6, <1>7 DEF NoticeInv, WatchInv

\* What others change, the helper that listens signals.
LEMMA WorldSignals ==
  ASSUME World
  PROVE  (watching => changed') /\ UNCHANGED <<helper, watching, call, answer, seen>>
<1>1. ASSUME NEW fields, Elsewhere(fields)
      PROVE  (watching => changed') /\ UNCHANGED <<helper, watching, call, answer, seen>>
  BY <1>1 DEF Elsewhere
<1> QED BY <1>1 DEF World, Other, Unplug

LEMMA NoticeWorld == ASSUME NoticeInv, Elsewhen PROVE NoticeInv'
<1>1. /\ UNCHANGED <<at, outcome, asked, shown, visible, dirty, refused, armed, stateKnown>>
      /\ (watching => changed') /\ UNCHANGED <<helper, watching, call, answer, seen>>
  BY WorldSignals DEF Elsewhen, txVars, uiVars, runVars
<1>2. Tracked => Tracked'
  BY <1>1 DEF Tracked
<1>3. KnownInv' /\ WatchInv'
  BY <1>1, <1>2 DEF NoticeInv, KnownInv, WatchInv, StopNoticed, Reread, HasRead
<1>4. ChangeIsNoticed'
  BY <1>1 DEF NoticeInv, ChangeIsNoticed
<1> QED BY <1>3, <1>4 DEF NoticeInv

LEMMA NoticeSame ==
  ASSUME NoticeInv, UNCHANGED <<at, outcome, asked, shown, visible, dirty, refused, armed, stateKnown,
                                hw, gone, helper, watching, changed, call, answer, seen>>
  PROVE  NoticeInv'
<1>1. KnownInv' /\ ChangeIsNoticed'
  BY DEF NoticeInv, KnownInv, ChangeIsNoticed, Shows
<1>2. WatchInv'
  BY DEF NoticeInv, WatchInv, StopNoticed, Reread, HasRead, Tracked, Shows
<1> QED BY <1>1, <1>2 DEF NoticeInv

LEMMA NoticeNext == ASSUME Inv1, ScheduledInv', NoticeInv, [Next]_vars PROVE NoticeInv'
<1>1. CASE UNCHANGED vars
  BY <1>1, NoticeSame DEF vars, helperVars, world, link, txVars, uiVars, runVars
<1>2. CASE User \/ Prepare \/ Changed
  BY <1>2, NoticeUi
<1>3. CASE Complete
  BY <1>3, NoticeComplete
<1>4. CASE (\E l \in Lanes : RunCommand(l)) \/ RunProfile \/ ApplyProfile \/ RunObserve
  BY <1>4, NoticeTake
<1>5. CASE Followed \/ Answered \/ Suspended \/ ProfileDone
  BY <1>5, NoticeEnds
<1>6. CASE TxStep /\ UNCHANGED outside
  BY <1>6, NoticeTx
<1>7. CASE HelperStep /\ UNCHANGED <<published, time, txVars, outside>>
  BY <1>7, HelperFrame, NoticeHelper DEF HelperMoves, HelperStep
<1>8. CASE Crash /\ UNCHANGED <<published, time, txVars, outside>>
  BY <1>8, HelperFrame, NoticeHelper DEF HelperMoves
<1>9. CASE TimePasses /\ UNCHANGED outside
  <2>1. UNCHANGED <<at, outcome, asked, shown, visible, dirty, refused, armed, stateKnown,
                    hw, gone, helper, watching, changed, call, answer, seen>>
    BY <1>9 DEF TimePasses, world, link, txVars, outside, uiVars, runVars
  <2> QED BY <2>1, NoticeSame
<1>10. CASE Elsewhen
  BY <1>10, NoticeWorld
<1> QED BY <1>1, <1>2, <1>3, <1>4, <1>5, <1>6, <1>7, <1>8, <1>9, <1>10, NextSteps DEF TxStep

LEMMA NoticeInit == ASSUME Init PROVE NoticeInv
<1>1. asked = Nothing /\ at = "idle" /\ answer = "none" /\ helper = "none"
  BY DEF Init, HelperInit
<1>2. KnownInv /\ ChangeIsNoticed
  BY <1>1 DEF KnownInv, ChangeIsNoticed
<1>3. WatchInv
  BY <1>1, NothingPends DEF WatchInv, StopNoticed, HasRead
<1> QED BY <1>2, <1>3 DEF NoticeInv

-----------------------------------------------------------------------------
(* The theorems                                                             *)

IInv == /\ Inv1 /\ OwnedInv /\ SeenInv /\ WasInv /\ AppliedInv /\ HonestInv
        /\ RunInv /\ MutedInv /\ AckInv /\ UndoInv /\ LeftInv /\ SilentInv
        /\ ScheduledInv /\ NoticeInv

\* At first there is no transaction.
LEMMA InvInit == ASSUME Init PROVE IInv
<1>1. Inv1 /\ OwnedInv
  BY Inv1Init, OwnedInit
<1>2. /\ at = "idle" /\ call = None /\ undo = <<>> /\ answer = "none"
      /\ running = None /\ muted = {}
  BY DEF Init, HelperInit
<1>3. SeenInv
  BY <1>2 DEF SeenInv, InTouch
<1>4. WasInv
  BY <1>2 DEF WasInv, FieldsInv, EntryInv, UndoValues
<1>5. AppliedInv
  BY <1>2 DEF AppliedInv, AppliedMeansInForce
<1>6. HonestInv
  BY <1>2 DEF HonestInv, UndoIsHonest
<1>7. RunInv
  BY <1>2 DEF RunInv, InTransaction
<1>8. AckInv
  BY <1>2 DEF AckInv
<1>9. UndoInv
  BY <1>2 DEF UndoInv
<1>10. MutedInv /\ LeftInv /\ SilentInv
  BY <1>2 DEF MutedInv, LeftInv, SilentInv
<1>11. ScheduledInv /\ NoticeInv
  BY ScheduledInit, NoticeInit
<1> QED BY <1>1, <1>3, <1>4, <1>5, <1>6, <1>7, <1>8, <1>9, <1>10, <1>11 DEF IInv

LEMMA InvNext == ASSUME IInv, [Next]_vars PROVE IInv'
<1>1. Inv1'
  BY Inv1Next DEF IInv
<1>2. OwnedInv' /\ SeenInv' /\ WasInv' /\ AppliedInv' /\ HonestInv'
  BY <1>1, OwnedNext, SeenNext, WasNext, AppliedNext, HonestNext DEF IInv
<1>3. RunInv' /\ MutedInv' /\ AckInv' /\ UndoInv' /\ LeftInv' /\ SilentInv'
  BY <1>1, RunNext, MutedNext, AckNext, UndoNext, LeftNext, SilentNext DEF IInv
<1>4. ScheduledInv'
  BY ScheduledNext DEF IInv
<1>5. NoticeInv'
  BY <1>4, NoticeNext DEF IInv
<1> QED BY <1>1, <1>2, <1>3, <1>4, <1>5 DEF IInv

\* In every reachable state a command, its compensation, the reply buffer, the
\* history of the fields and the position in the plan belong together: what is
\* in the buffer is what the devices are set to, but for the command that is
\* out; what the stack has is the transaction's own; what is not in the stack
\* is as it was, or the outcome says that it is not; and what an acknowledged
\* mute has silenced, and a profile's stages have left, is silent; what is asked
\* for has a run, and what is shown is watched.
THEOREM Invariance == Spec => []IInv
<1>1. Init => IInv
  BY InvInit
<1>2. IInv /\ [Next]_vars => IInv'
  BY InvNext
<1> QED BY <1>1, <1>2, PTL DEF Spec

\* Every variable of the coordinator, the transaction and the helper keeps its
\* type: a command is always a value its field can have, for an endpoint the
\* device has, whichever lane, profile or compensation it came from.
THEOREM TypeCorrect == Spec => []TypeOK
<1>1. IInv => TypeOK
  BY DEF IInv, Inv1
<1> QED BY <1>1, Invariance, PTL

\* A rollback changes a device only where the transaction's own change still
\* stands ("Restore only revisions still owned by this transaction"), or where
\* another changed the field between the command's comparison and its reading
\* back: such a change is written over, or its revision taken for RedXe's.
THEOREM OnlyItsOwnIsUndone == Spec => OthersAreKept
<1> DEFINE Step == at = "rollback" /\ call # None /\ call' # None /\ call.stage = "checked" /\ call'.stage = "changed"
                     => who[call.field] = "redxe" \/ call.field \in raced
<1>1. IInv /\ [Next]_vars => [Step]_vars
  BY DEF IInv, OwnedInv
<1> QED BY <1>1, Invariance, PTL DEF Spec, OthersAreKept

\* A profile that is reported as applied is in force in every route, in every
\* level it asks for and in the camera source, whatever the number of devices,
\* roles and endpoints, except where somebody else changed one since.
THEOREM AppliedIsInForce == Spec => []AppliedMeansInForce
<1>1. IInv => AppliedMeansInForce
  BY DEF IInv, AppliedInv
<1> QED BY <1>1, Invariance, PTL

\* A profile that fails and calls its rollback complete has put back every
\* value it changed, but what another took over and what could not be read
\* back, whichever stage failed and whatever crashed or changed meanwhile.
THEOREM RollbackIsHonest == Spec => []UndoIsHonest
<1>1. IInv => UndoIsHonest
  BY DEF IInv, HonestInv
<1> QED BY <1>1, Invariance, PTL

\* A flow whose last word was an acknowledged mute stays silent on the endpoint
\* its role leads to, whatever profiles are applied, fail, are superseded or
\* rolled back, whatever crashes and whatever else changes, until a newer
\* command or somebody else changes the flow; left out are the profiles for
\* another first role, and those that could not be undone or read back.
THEOREM MutedFlowsStaySilent == Spec => []MutedStaysSilent
<1>1. ASSUME IInv PROVE MutedStaysSilent
  <2>1. TypeOK /\ MutedInv /\ SilentInv
    BY <1>1 DEF IInv, Inv1
  <2>2. ASSUME NEW m \in muted, ~crossed, outcome.whole, blind = {}
        PROVE  Silent(Observation, m[1], hw[Route(m[1], m[2])].v)
    <3>1. Hush(hw, gone, m[1], hw[Route(m[1], m[2])].v)
      BY <2>1, <2>2 DEF SilentInv, Excused
    <3>2. m[1] \in FlowSet /\ hw[Route(m[1], m[2])].v \in Endpoints \cup {None}
      BY <2>1, MutedRoute
    <3> QED BY <2>1, <3>1, <3>2, HushIsSilent
  <2> QED BY <2>2 DEF MutedStaysSilent
<1> QED BY <1>1, Invariance, PTL

\* A visible view never overlooks a change: when nothing is under way, what it
\* shows is what the devices are set to and the wait and the helper's
\* notifications are there for the next change, or the view is about to read
\* them again, whatever was submitted, lost, suspended or changed before.
THEOREM NoChangeOverlooked == Spec => []ChangeIsNoticed
<1>1. IInv => ChangeIsNoticed
  BY DEF IInv, NoticeInv
<1> QED BY <1>1, Invariance, PTL

\* Whatever was asked for has a run that will take it, and "pending" is what the
\* profile that waits or runs is, however requests, failures and completions
\* follow each other.
THEOREM NothingIsStranded == Spec => []AskedIsScheduled
<1>1. IInv => AskedIsScheduled
  BY DEF IInv, ScheduledInv
<1> QED BY <1>1, Invariance, PTL

\* Neither a change nor a request is left over between two runs.
THEOREM NothingLeftOver == Spec => []NothingIsLeftOver
<1> QED BY NoChangeOverlooked, NothingIsStranded, PTL DEF NothingIsLeftOver
===============================================================================
