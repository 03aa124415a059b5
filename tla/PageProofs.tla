----------------------------- MODULE PageProofs ------------------------------
(* Proofs about two parts of the page that share no state.  Of Screen, for any *)
(* worlds, feeds and decisions of the server: the alarms agree, and Simple     *)
(* View shows no token.  Of Dialogs, for any runs, any responses and any       *)
(* number of calls in flight: the last load of scenarios wins, and one run is  *)
(* created at a time.                                                          *)
EXTENDS Screen, Dialogs, FiniteSetTheorems, TLAPS

\* What the needs of an entity are called.
Needs == {"hunger", "thirst", "energy", "health"}

\* What the server answers of entities: finitely many, each with an id of its own, and
\* the needs it has are numbers.
Measured(w) ==
    /\ IsFiniteSet(w)
    /\ \A e \in w : e.order \in Int
    /\ \A e, f \in w : e.order = f.order => e = f
    /\ \A e \in w : \A k \in Needs \cap DOMAIN e : e[k] \in Int

Documents == \A w \in Worlds : Measured(w.entities)

-----------------------------------------------------------------------------
LEMMA GetType ==
    ASSUME NEW w, Measured(w), NEW e \in w, NEW k \in Needs, NEW d \in Int
    PROVE  Get(e, k, d) \in Int
BY DEF Measured, Get

LEMMA Severity ==
    ASSUME NEW k \in Needs, NEW v \in Int
    PROVE  /\ NeedSeverity(k, v) \in Status
           /\ k \in {"hunger", "thirst"} =>
                 /\ v >= 900 => NeedSeverity(k, v) = "Critical"
                 /\ v >= 700 => NeedSeverity(k, v) \in {"Critical", "Urgent"}
BY DEF NeedSeverity, AtMost, Status, Needs

LEMMA RankType ==
    \A s \in Status : Rank(s) \in 0..5
BY DEF Rank, Status

LEMMA RankInjective ==
    \A s, t \in Status : Rank(s) = Rank(t) => s = t
BY DEF Rank, Status

\* The status of an entity is the worst of its levels.
LEMMA StatusIsWorst ==
    ASSUME NEW w, Measured(w), NEW e \in w
    PROVE  /\ EntityStatus(e) \in Status
           /\ Alive(e) /\ Living(e) =>
                 \A m \in NeedLevels(e) : Rank(m) <= Rank(EntityStatus(e))
<1>1. NeedLevels(e) \subseteq Status
  <2>1. /\ Get(e, "thirst", 0) \in Int /\ Get(e, "hunger", 0) \in Int
        /\ Get(e, "energy", 1000) \in Int /\ Get(e, "health", 1000) \in Int
    BY GetType DEF Needs
  <2>. QED  BY <2>1, Severity DEF NeedLevels, Needs, Status
<1>2. NeedLevels(e) # {}
  BY DEF NeedLevels
<1>3. \E l \in NeedLevels(e) : \A m \in NeedLevels(e) : Rank(m) <= Rank(l)
  <2>. DEFINE Worst(r) == \E l \in NeedLevels(e) : Rank(l) = r
  <2>1. \A l \in NeedLevels(e) : Rank(l) \in {0, 1, 2, 3, 4, 5}
    BY <1>1, RankType
  <2>2. \E r \in {0, 1, 2, 3, 4, 5} : Worst(r) /\ \A q \in {0, 1, 2, 3, 4, 5} : Worst(q) => q <= r
    <3>1. \E r \in {0, 1, 2, 3, 4, 5} : Worst(r)
      BY <1>2, <2>1
    <3>. HIDE DEF Worst
    <3>. QED  BY <3>1
  <2>. QED  BY <2>1, <2>2
<1>4. CASE Alive(e) /\ Living(e)
  <2>. DEFINE l == CHOOSE l \in NeedLevels(e) : \A m \in NeedLevels(e) : Rank(m) <= Rank(l)
  <2>1. l \in NeedLevels(e) /\ \A m \in NeedLevels(e) : Rank(m) <= Rank(l)
    BY <1>3, Zenon
  <2>2. EntityStatus(e) = l
    BY <1>4 DEF EntityStatus
  <2>. HIDE DEF l
  <2>. QED  BY <1>1, <2>1, <2>2
<1>5. CASE ~(Alive(e) /\ Living(e))
  BY <1>5 DEF EntityStatus, Status
<1>. QED  BY <1>4, <1>5

-----------------------------------------------------------------------------
\* The strip.

LivingOf(w) == {e \in w : Living(e)}
Ahead(w, e) == {f \in w : Living(f) /\ Before(f, e)}

\* Before is a strict total order of the entities of a world.
LEMMA BeforeOrders ==
    ASSUME NEW w, Measured(w)
    PROVE  /\ \A e \in w : ~Before(e, e)
           /\ \A e, f, g \in w : Before(e, f) /\ Before(f, g) => Before(e, g)
           /\ \A e, f \in w : e = f \/ Before(e, f) \/ Before(f, e)
<1>1. \A e \in w : /\ EntityStatus(e) \in Status /\ Rank(EntityStatus(e)) \in 0..5
                   /\ e.order \in Int
  BY StatusIsWorst, RankType DEF Measured
<1>2. \A e, f \in w :
        Before(f, e) <=> \/ Rank(EntityStatus(f)) > Rank(EntityStatus(e))
                         \/ /\ Rank(EntityStatus(f)) = Rank(EntityStatus(e))
                            /\ f.order < e.order
  BY <1>1, RankInjective DEF Before
<1>3. \A e, f \in w : e.order = f.order => e = f
  BY DEF Measured
<1>. QED  BY <1>1, <1>2, <1>3

LEMMA AheadSize ==
    ASSUME NEW w, Measured(w), NEW e \in w
    PROVE  /\ IsFiniteSet(Ahead(w, e)) /\ Cardinality(Ahead(w, e)) \in Nat
           /\ \A f \in w : Living(e) /\ Before(e, f) =>
                 Cardinality(Ahead(w, e)) < Cardinality(Ahead(w, f))
<1>1. \A f \in w : IsFiniteSet(Ahead(w, f)) /\ Cardinality(Ahead(w, f)) \in Nat
  BY FS_Subset, FS_CardinalityType DEF Measured, Ahead
<1>2. ASSUME NEW f \in w, Living(e), Before(e, f)
      PROVE  Cardinality(Ahead(w, e)) < Cardinality(Ahead(w, f))
  <2>1. Ahead(w, e) \subseteq Ahead(w, f)
    BY <1>2, BeforeOrders DEF Ahead
  <2>2. e \in Ahead(w, f) /\ e \notin Ahead(w, e)
    BY <1>2, BeforeOrders DEF Ahead
  <2>3. /\ Cardinality(Ahead(w, e)) <= Cardinality(Ahead(w, f))
        /\ Cardinality(Ahead(w, e)) # Cardinality(Ahead(w, f))
    BY <1>1, <2>1, <2>2, FS_Subset
  <2>. QED  BY <1>1, <2>3
<1>. QED  BY <1>1, <1>2

\* When somebody is left out, the strip is full.
LEMMA StripFull ==
    ASSUME NEW w, Measured(w), NEW e \in w, Living(e), e \notin AttentionStrip(w)
    PROVE  Cardinality(AttentionStrip(w)) = StripLength
<1>. DEFINE L == LivingOf(w)
            n == Cardinality(L)
            place == [x \in L |-> Cardinality(Ahead(w, x))]
            S == AttentionStrip(w)
            K == 0..(StripLength - 1)
            inStrip == [x \in S |-> Cardinality(Ahead(w, x))]
<1>1. IsFiniteSet(L) /\ n \in Nat
  BY FS_Subset, FS_CardinalityType DEF Measured, LivingOf
<1>2. ASSUME NEW x \in L
      PROVE  Cardinality(Ahead(w, x)) \in 0..(n - 1)
  <2>1. x \in w /\ Ahead(w, x) \subseteq L /\ x \in L /\ x \notin Ahead(w, x)
    BY BeforeOrders DEF LivingOf, Ahead
  <2>2. Cardinality(Ahead(w, x)) <= n /\ Cardinality(Ahead(w, x)) # n
    BY <1>1, <2>1, FS_Subset
  <2>3. Cardinality(Ahead(w, x)) \in Nat
    BY <2>1, AheadSize
  <2>. QED  BY <1>1, <2>2, <2>3
<1>3. \A x, y \in L : Cardinality(Ahead(w, x)) = Cardinality(Ahead(w, y)) => x = y
  <2>1. \A x \in L : x \in w /\ Living(x) /\ Cardinality(Ahead(w, x)) \in Nat
    BY AheadSize DEF LivingOf
  <2>2. \A x, y \in L : Before(x, y) => Cardinality(Ahead(w, x)) < Cardinality(Ahead(w, y))
    BY <2>1, AheadSize
  <2>. QED  BY <2>1, <2>2, BeforeOrders
<1>4. place \in Surjection(L, 0..(n - 1))
  <2>1. place \in Injection(L, 0..(n - 1))
    BY <1>2, <1>3 DEF Injection, IsInjective
  <2>2. IsFiniteSet(0..(n - 1)) /\ Cardinality(0..(n - 1)) = n
    BY <1>1, FS_Interval
  <2>. HIDE DEF place, L
  <2>. QED  BY <2>1, <2>2, FS_Injection
<1>5. S = {x \in L : Cardinality(Ahead(w, x)) < StripLength}
  BY DEF AttentionStrip, Ahead, LivingOf
<1>6. e \in L /\ StripLength <= Cardinality(Ahead(w, e))
  BY <1>1, <1>2, <1>5, PresentationAssumption DEF LivingOf
<1>7. inStrip \in Injection(S, K)
  BY <1>1, <1>2, <1>3, <1>5, PresentationAssumption DEF Injection, IsInjective
<1>8. inStrip \in Surjection(S, K)
  <2>1. ASSUME NEW i \in K
        PROVE  \E x \in S : inStrip[x] = i
    <3>1. i \in 0..(n - 1) /\ i < StripLength
      BY <1>1, <1>2, <1>6, PresentationAssumption
    <3>2. PICK x \in L : Cardinality(Ahead(w, x)) = i
      BY <1>4, <3>1 DEF Surjection
    <3>. QED  BY <1>5, <3>1, <3>2
  <2>. QED  BY <1>7, <2>1 DEF Surjection, Injection
<1>9. IsFiniteSet(K) /\ Cardinality(K) = StripLength
  BY FS_Interval, PresentationAssumption
<1>. HIDE DEF inStrip, S, K
<1>. QED  BY <1>7, <1>8, <1>9, FS_Injection DEF S

\* Who is left out is no worse off than those in the strip.
LEMMA StripWorst ==
    ASSUME NEW w, Measured(w), NEW e \in w, Living(e), e \notin AttentionStrip(w),
           NEW f \in AttentionStrip(w)
    PROVE  Rank(EntityStatus(f)) >= Rank(EntityStatus(e))
<1>1. f \in w /\ Living(f) /\ Cardinality(Ahead(w, f)) < StripLength
  BY DEF AttentionStrip, Ahead
<1>2. ~(Cardinality(Ahead(w, e)) < StripLength)
  BY DEF AttentionStrip, Ahead
<1>3. ~Before(e, f)
  <2>1. /\ Cardinality(Ahead(w, f)) \in Nat
        /\ Before(e, f) => Cardinality(Ahead(w, e)) < Cardinality(Ahead(w, f))
        /\ Cardinality(Ahead(w, e)) \in Nat
    BY <1>1, AheadSize
  <2>. QED  BY <1>1, <1>2, <2>1, PresentationAssumption
<1>4. Before(f, e)
  BY <1>1, <1>3, BeforeOrders
<1>5. Rank(EntityStatus(e)) \in Int /\ Rank(EntityStatus(f)) \in Int
  BY <1>1, StatusIsWorst, RankType
<1>. QED  BY <1>4, <1>5 DEF Before

\* The four alarms of one world.
LEMMA AlarmsOfWorld ==
    ASSUME NEW w, Measured(w)
    PROVE  AlarmsAgreeIn(w)
<1>. SUFFICES ASSUME NEW e \in w
              PROVE  /\ Ringed(e) =>
                          /\ BadgeVariant(EntityStatus(e)) = "danger"
                          /\ Alive(e) => {<<"hunger", "red">>, <<"thirst", "red">>}
                                             \cap SoftNeedBars(e) # {}
                          /\ InStrip(e, w)
                     /\ Living(e) /\ "red" \in {NeedBarColour(Get(e, k, 0)) :
                                                    k \in {"hunger", "thirst"}} =>
                          Rank(EntityStatus(e)) >= Rank("Urgent")
  BY DEF AlarmsAgreeIn
<1>1. \A k \in {"hunger", "thirst"} : Get(e, k, 0) \in Int
  BY GetType DEF Needs
<1>2. EntityStatus(e) \in Status /\ Rank(EntityStatus(e)) \in 0..5
  BY StatusIsWorst, RankType
<1>3. /\ Rank("Urgent") = 3 /\ Rank("Critical") = 4 /\ Rank("Dead") = 5
      /\ Rank(EntityStatus(e)) >= 4 => EntityStatus(e) \in {"Critical", "Dead"}
  BY <1>2 DEF Rank, Status
<1>4. \A k \in {"hunger", "thirst"} : NeedSeverity(k, Get(e, k, 0)) \in NeedLevels(e)
  BY DEF NeedLevels
<1>5. ASSUME Living(e), NEW k \in {"hunger", "thirst"}, Get(e, k, 0) >= 700
      PROVE  Rank(EntityStatus(e)) >= 3
  <2>1. CASE ~Alive(e)
    BY <1>3, <2>1 DEF EntityStatus
  <2>2. CASE Alive(e)
    <3>1. NeedSeverity(k, Get(e, k, 0)) \in {"Critical", "Urgent"}
      BY <1>1, <1>5, Severity DEF Needs
    <3>2. Rank(NeedSeverity(k, Get(e, k, 0))) <= Rank(EntityStatus(e))
      BY <1>4, <1>5, <2>2, StatusIsWorst
    <3>. QED  BY <1>2, <1>3, <3>1, <3>2
  <2>. QED  BY <2>1, <2>2
<1>6. ASSUME Living(e), NEW k \in {"hunger", "thirst"}, Get(e, k, 0) >= 900
      PROVE  EntityStatus(e) \in {"Critical", "Dead"}
  <2>1. CASE ~Alive(e)
    BY <2>1 DEF EntityStatus
  <2>2. CASE Alive(e)
    <3>1. NeedSeverity(k, Get(e, k, 0)) = "Critical"
      BY <1>1, <1>6, Severity DEF Needs
    <3>2. Rank(NeedSeverity(k, Get(e, k, 0))) <= Rank(EntityStatus(e))
      BY <1>4, <1>6, <2>2, StatusIsWorst
    <3>. QED  BY <1>2, <1>3, <3>1, <3>2
  <2>. QED  BY <2>1, <2>2
<1>7. ASSUME Ringed(e)
      PROVE  /\ BadgeVariant(EntityStatus(e)) = "danger"
             /\ Alive(e) => {<<"hunger", "red">>, <<"thirst", "red">>} \cap SoftNeedBars(e) # {}
             /\ InStrip(e, w)
  <2>1. PICK k \in {"hunger", "thirst"} : Get(e, k, 0) >= 900
    BY <1>1, <1>7 DEF Ringed, Larger
  <2>2. e.type = "person" /\ Living(e)
    BY <1>7 DEF Ringed, Living
  <2>3. EntityStatus(e) \in {"Critical", "Dead"}
    BY <1>6, <2>1, <2>2
  <2>4. BadgeVariant(EntityStatus(e)) = "danger"
    BY <2>3 DEF BadgeVariant
  <2>5. ASSUME Alive(e)
        PROVE  {<<"hunger", "red">>, <<"thirst", "red">>} \cap SoftNeedBars(e) # {}
    <3>1. NeedSeverity(k, Get(e, k, 0)) = "Critical"
      BY <1>1, <2>1, Severity DEF Needs
    <3>2. SoftColour(NeedSeverity(k, Get(e, k, IF k = "health" THEN 1000 ELSE 0))) = "red"
      BY <3>1 DEF SoftColour
    <3>3. k \in BarNeeds(e)
      BY <2>2 DEF BarNeeds
    <3>4. <<k, "red">> \in SoftNeedBars(e)
      BY <2>2, <2>5, <3>2, <3>3 DEF SoftNeedBars
    <3>. QED  BY <3>4
  <2>6. InStrip(e, w)
    <3>1. CASE e \in AttentionStrip(w)
      BY <3>1 DEF InStrip
    <3>2. CASE e \notin AttentionStrip(w)
      <4>1. Cardinality(AttentionStrip(w)) = StripLength
        BY <2>2, <3>2, StripFull
      <4>2. ASSUME NEW f \in AttentionStrip(w)
            PROVE  EntityStatus(f) \in {"Critical", "Dead"}
        <5>1. f \in w
          BY DEF AttentionStrip
        <5>2. EntityStatus(f) \in Status /\ Rank(EntityStatus(f)) \in 0..5
          BY <5>1, StatusIsWorst, RankType
        <5>3. Rank(EntityStatus(f)) >= 4
          BY <1>3, <2>2, <2>3, <3>2, <5>2, StripWorst
        <5>. QED  BY <5>2, <5>3 DEF Rank, Status
      <4>. QED  BY <4>1, <4>2 DEF InStrip
    <3>. QED  BY <3>1, <3>2
  <2>. QED  BY <2>4, <2>5, <2>6
<1>8. ASSUME Living(e), "red" \in {NeedBarColour(Get(e, k, 0)) : k \in {"hunger", "thirst"}}
      PROVE  Rank(EntityStatus(e)) >= Rank("Urgent")
  <2>1. PICK k \in {"hunger", "thirst"} : NeedBarColour(Get(e, k, 0)) = "red"
    BY <1>8
  <2>2. Get(e, k, 0) >= 700
    BY <1>1, <2>1 DEF NeedBarColour
  <2>. QED  BY <1>3, <1>5, <1>8, <2>2
<1>. QED  BY <1>7, <1>8

-----------------------------------------------------------------------------
\* Texts.

\* A text of which Simple View knows every token.
Plain(text) == Raws(text) \subseteq Only(Softened \cup NeedAssignments)

LEMMA Tags ==
    \A t : /\ Translated(t)[1] # "raw" /\ Humanized(t)[1] # "raw" /\ Words(t)[1] # "raw"
           /\ Count(t)[1] # "raw" /\ Raw(t)[1] = "raw" /\ Raw(t)[2] = t
BY DEF Translated, Humanized, Words, Count, Raw

LEMMA RawsOfUnion ==
    \A a, b : Raws(a) = {} /\ Raws(b) = {} => Raws(a \cup b) = {}
BY DEF Raws

LEMMA LabelsHide ==
    ASSUME NEW t, NEW table, NEW absent, Raws(absent) = {}
    PROVE  Raws(Label(t, table, absent)) = {}
BY Tags DEF Label, Raws

LEMMA AllLabelsHide ==
    \A t : /\ Raws(LabelGoal(t)) = {} /\ Raws(LabelActionType(t)) = {}
           /\ Raws(LabelTravelPurpose(t)) = {} /\ Raws(LabelArrivalNext(t)) = {}
           /\ Raws(LabelEventType(t)) = {} /\ Raws(Label(t, {}, {})) = {}
           /\ LabelGoal(t) # {}
<1>1. Raws({}) = {} /\ \A w : Raws({Words(w)}) = {}
  BY Tags DEF Raws
<1>2. \A t : LabelGoal(t) # {}
  BY DEF LabelGoal, Label
<1>. QED
  BY <1>1, <1>2, LabelsHide
  DEF LabelGoal, LabelActionType, LabelTravelPurpose, LabelArrivalNext, LabelEventType

LEMMA SanitizedLeaves ==
    ASSUME NEW text, NEW others, Raws(text) \subseteq Only(Softened \cup NeedAssignments \cup others)
    PROVE  Raws(SanitizeSimpleProse(text)) \subseteq Only(others)
<1>. SUFFICES ASSUME NEW f \in text \ {Raw(a) : a \in NeedAssignments},
                     (IF f[1] = "raw" /\ f[2] \in Softened THEN Translated(f[2]) ELSE f)[1]
                        = "raw"
              PROVE  ~(f[1] = "raw" /\ f[2] \in Softened) /\ f \in Only(others)
  BY DEF Raws, SanitizeSimpleProse
<1>1. f[1] = "raw" /\ f[2] \notin Softened
  BY Tags
<1>2. PICK t \in Softened \cup NeedAssignments \cup others : f = Raw(t)
  BY <1>1 DEF Raws, Only
<1>. QED  BY <1>1, <1>2, Tags DEF Only

LEMMA SanitizedHides ==
    ASSUME NEW text, Plain(text)
    PROVE  Raws(SanitizeSimpleProse(text)) = {}
<1>1. Raws(SanitizeSimpleProse(text)) \subseteq Only({})
  BY SanitizedLeaves DEF Plain
<1>. QED  BY <1>1 DEF Only

LEMMA StatesHide ==
    \A e : /\ Raws(Activity(e)) = {} /\ Raws(Destination(e, FALSE)) = {}
           /\ Raws(DescribeNext(e)) = {} /\ Raws(Condition(e)) = {}
<1>. TAKE e
<1>1. \A n : Raws(Steps(n)) = {}
  BY Tags DEF Steps, Raws
<1>2. Raws(Activity(e)) = {}
  <2>. DEFINE type == Act(e, "type")
              purpose == Act(e, "travel_purpose")
  <2>1. CASE ~Alive(e)
    <3>1. Activity(e) = {Words("died")} \cup Label(Get(e, "death_cause", None), {}, {})
      BY <2>1 DEF Activity
    <3>. QED  BY <3>1, AllLabelsHide, Tags DEF Raws
  <2>2. CASE Alive(e) /\ type = "travel"
    <3>1. \/ Activity(e) = {Words("travelling")} \cup LabelArrivalNext(Act(e, "arrival_action"))
          \/ Activity(e) = LabelTravelPurpose(purpose)
                              \cup LabelArrivalNext(Act(e, "arrival_action"))
      BY <2>2 DEF Activity
    <3>. QED  BY <3>1, AllLabelsHide, Tags DEF Raws
  <2>3. CASE Alive(e) /\ type = "gather"
    <3>1. \E t : Activity(e) = {Translated(t)}
      BY <2>3 DEF Activity
    <3>. QED  BY <3>1, Tags DEF Raws
  <2>4. CASE Alive(e) /\ type \notin {"travel", "gather"}
    <3>1. \/ Activity(e) = LabelActionType(type) \cup {Words(Act(e, "status"))}
          \/ Activity(e) = LabelActionType(type) \cup {}
      BY <2>4 DEF Activity
    <3>. QED  BY <3>1, AllLabelsHide, Tags DEF Raws
  <2>. QED  BY <2>1, <2>2, <2>3, <2>4
<1>3. Raws(Destination(e, FALSE)) = {}
  <2>1. \/ Destination(e, FALSE) = {}
        \/ \E t, n : Destination(e, FALSE) = {Translated(t)} \cup Steps(n)
        \/ \E t, n : Destination(e, FALSE) = {Words(t)} \cup Steps(n)
    BY DEF Destination
  <2>. QED  BY <1>1, <2>1, Tags DEF Raws
<1>4. Raws(DescribeNext(e)) = {}
  <2>. DEFINE type == Act(e, "type")
              n == Act(e, "remaining_path")
              required == Get(Get(e, "action", <<>>), "ticks_required", 0)
              works == type \in {"gather", "hunt_strike", "build_shelter"} /\ required > 0
  <2>1. CASE ~Alive(e)
    BY <2>1, Tags DEF DescribeNext, Raws
  <2>2. CASE Alive(e) /\ type = "travel" /\ n # None
    <3>1. DescribeNext(e) = {IF n = 0 THEN Words("arriving") ELSE Count(n)}
                                \cup LabelArrivalNext(Act(e, "arrival_action"))
      BY <2>2 DEF DescribeNext
    <3>. QED  BY <3>1, AllLabelsHide, Tags DEF Raws
  <2>3. CASE Alive(e) /\ ~(type = "travel" /\ n # None) /\ works
    <3>1. DescribeNext(e) = {Count(Get(e.action, "ticks_spent", 0)), Count(required)}
      BY <2>3 DEF DescribeNext
    <3>. QED  BY <3>1, Tags DEF Raws
  <2>4. CASE Alive(e) /\ ~(type = "travel" /\ n # None) /\ ~works
    <3>. DEFINE next == Get(Plan(e), "step_index", 0) + 2
    <3>1. DescribeNext(e) = IF type = "sleep" THEN {Words("until rested")}
                            ELSE IF next \in DOMAIN Plan(e).steps
                            THEN LabelArrivalNext(Plan(e).steps[next])
                            ELSE NoNext
      BY <2>4 DEF DescribeNext
    <3>2. Raws({Words("until rested")}) = {} /\ Raws(NoNext) = {}
      BY Tags DEF Raws, NoNext
    <3>. QED  BY <3>1, <3>2, AllLabelsHide
  <2>. QED  BY <2>1, <2>2, <2>3, <2>4
<1>5. Raws(Condition(e)) = {}
  <2>1. \A k \in ConditionNeeds(e) : \A s : <<k, s>>[1] # "raw"
    BY DEF ConditionNeeds
  <2>2. CASE ~Living(e)
    BY <2>2 DEF Condition, Raws
  <2>3. CASE Living(e) /\ ~Alive(e)
    <3>1. Condition(e) = {Words("dead")} \cup Label(Get(e, "death_cause", None), {}, {})
      BY <2>3 DEF Condition
    <3>. QED  BY <3>1, AllLabelsHide, Tags DEF Raws
  <2>4. CASE Living(e) /\ Alive(e)
    <3>. DEFINE Level(k) == NeedSeverity(k, Get(e, k, IF k = "health" THEN 1000 ELSE 0))
                levels == {<<k, Level(k)>> : k \in ConditionNeeds(e)}
    <3>1. Raws(levels) = {}
      <4>. HIDE DEF Level
      <4>. QED  BY <2>1 DEF Raws
    <3>2. Raws({Words("injured")}) = {} /\ Raws({}) = {}
      BY Tags DEF Raws
    <3>3. \/ Condition(e) = levels \cup {Words("injured")}
          \/ Condition(e) = levels \cup {}
      BY <2>4 DEF Condition
    <3>. HIDE DEF levels
    <3>. QED  BY <3>1, <3>2, <3>3, RawsOfUnion
  <2>. QED  BY <2>2, <2>3, <2>4
<1>. QED  BY <1>2, <1>3, <1>4, <1>5

LEMMA WhyHides ==
    ASSUME NEW e, NEW selected, NEW text, selected # None \/ Plain(text)
    PROVE  Raws(WhySentence(e, selected, text)) = {}
<1>. DEFINE n == Act(e, "remaining_path")
            moving == Act(e, "type") = "travel" \/ Words("travelling") \in text
            told == {f \in text : f[1] = "count"}
            path == IF told # {} THEN told
                    ELSE IF n # None THEN Steps(n)
                    ELSE IF moving /\ Raw("coordinates") \in text
                    THEN {Words("planned route")} ELSE {}
            then == IF moving THEN LabelArrivalNext(Act(e, "arrival_action")) ELSE {}
            bits == GoalClause(selected, e) \cup (text \cap {Words("learned")})
                        \cup path \cup then
            soft == SanitizeSimpleProse(text)
<1>1. WhySentence(e, selected, text) =
        IF bits # {} THEN bits ELSE IF soft # {} THEN soft ELSE {Words("no explanation")}
  BY DEF WhySentence
<1>2. Raws(GoalClause(selected, e)) = {} /\ (selected # None => GoalClause(selected, e) # {})
  <2>1. \/ \E t : GoalClause(selected, e) = {Translated(t)}
        \/ GoalClause(selected, e) = LabelGoal(selected)
        \/ GoalClause(selected, e) = {} /\ selected = None
    BY DEF GoalClause
  <2>. QED  BY <2>1, AllLabelsHide, Tags DEF Raws
<1>3. Raws(path) = {}
  BY Tags DEF Raws, Steps
<1>4. Raws(then) = {}
  BY AllLabelsHide DEF Raws
<1>5. Raws(bits) = {}
  <2>. HIDE DEF path, then
  <2>. QED  BY <1>2, <1>3, <1>4, Tags DEF Raws
<1>6. selected # None => bits # {}
  BY <1>2
<1>7. Plain(text) => Raws(soft) = {}
  BY SanitizedHides
<1>8. Raws({Words("no explanation")}) = {}
  BY Tags DEF Raws
<1>. HIDE DEF bits, soft
<1>. QED  BY <1>1, <1>5, <1>6, <1>7, <1>8

LEMMA SummaryHides ==
    ASSUME NEW e, NEW d,
           \/ d = None \/ Get(d, "selected_goal", None) # None
           \/ Plain(Get(d, "explanation", {}))
    PROVE  Raws(EntitySummary(e, d).texts) = {}
<1>. DEFINE diag == IF d = None THEN <<>> ELSE d
            goal == Get(diag, "selected_goal", None)
            selected == IF goal # None THEN goal ELSE Get(e, "current_goal", None)
            told == ExplainDecision(e, d)
            labels == UNION {told.alternatives[i].label : i \in DOMAIN told.alternatives}
            wanted == IF Get(Plan(e), "goal", None) = None THEN {} ELSE LabelGoal(Plan(e).goal)
<1>1. /\ told.why = WhySentence(e, selected, Get(diag, "explanation", {}))
      /\ told.next = DescribeNext(e)
      /\ \A i \in DOMAIN told.alternatives : \E g : told.alternatives[i].label = LabelGoal(g)
  BY DEF ExplainDecision
<1>2. selected # None \/ Plain(Get(diag, "explanation", {}))
  <2>1. CASE d = None
    <3>1. Get(diag, "explanation", {}) = {}
      BY <2>1 DEF Get
    <3>. QED  BY <3>1 DEF Plain, Raws
  <2>2. CASE d # None
    BY <2>2
  <2>. QED  BY <2>1, <2>2
<1>3. Raws(told.why) = {}
  <2>. HIDE DEF selected, told, diag
  <2>. QED  BY <1>1, <1>2, WhyHides
<1>4. Raws(labels) = {}
  <2>1. \A i \in DOMAIN told.alternatives : Raws(told.alternatives[i].label) = {}
    BY <1>1, AllLabelsHide
  <2>. HIDE DEF told
  <2>. QED  BY <2>1 DEF Raws
<1>5. Raws(wanted) = {}
  BY AllLabelsHide DEF Raws
<1>6. Raws(told.next) = {}
  BY <1>1, StatesHide
<1>7. /\ Raws(Activity(e)) = {} /\ Raws(Destination(e, FALSE)) = {} /\ Raws(Condition(e)) = {}
  BY StatesHide
<1>8. EntitySummary(e, d).texts =
        Activity(e) \cup Destination(e, FALSE) \cup Condition(e) \cup told.why \cup told.next
            \cup labels \cup wanted
  BY DEF EntitySummary
<1>. DEFINE state == Activity(e) \cup Destination(e, FALSE) \cup Condition(e)
<1>. HIDE DEF told, labels, wanted
<1>9. Raws(state) = {}
  BY <1>7, RawsOfUnion
<1>. HIDE DEF state
<1>10. Raws(state \cup told.why \cup told.next) = {}
  BY <1>3, <1>6, <1>9, RawsOfUnion
<1>11. Raws(state \cup told.why \cup told.next \cup labels \cup wanted) = {}
  BY <1>4, <1>5, <1>10, RawsOfUnion
<1>. QED  BY <1>8, <1>11 DEF state

LEMMA TooltipHides ==
    \A e : Raws(CanvasTooltip(e, TRUE)) = {}
BY StatesHide, Tags DEF CanvasTooltip, Raws

\* An event of which no sentence of its own is told brings no more than Simple View
\* knows and the leaks of its type.
LEMMA CarriedLeaks ==
    \A type : type \in {"death"} \cup ToldSteps \/
              Carried(type) \subseteq Softened \cup NeedAssignments \cup Leaks(type)
BY DEF Carried, Leaks, NeedAssignments, Interventions

LEMMA EventsLeak ==
    ASSUME NEW event,
           \/ event.type \in ToldSteps
           \/ Raws(event.explanation) \subseteq Only(Carried(event.type))
    PROVE  Raws(NarrateEvent(event)) \subseteq Only(Leaks(event.type))
<1>. DEFINE soft == SanitizeSimpleProse(event.explanation)
<1>1. CASE HasSentence(event)
  <2>1. NarrateEvent(event)
          = {Words(event.type)} \cup Label(Get(event, "death_cause", None), {}, {})
    BY <1>1 DEF NarrateEvent
  <2>. QED  BY <2>1, AllLabelsHide, Tags DEF Raws
<1>2. CASE ~HasSentence(event)
  <2>1. event.type \notin {"death"} \cup ToldSteps
    BY <1>2 DEF HasSentence, ToldSteps
  <2>2. Raws(event.explanation)
          \subseteq Only(Softened \cup NeedAssignments \cup Leaks(event.type))
    <3>1. Only(Carried(event.type))
            \subseteq Only(Softened \cup NeedAssignments \cup Leaks(event.type))
      BY <2>1, CarriedLeaks DEF Only
    <3>. QED  BY <2>1, <3>1
  <2>3. NarrateEvent(event) = IF soft # {} THEN soft ELSE LabelEventType(event.type)
    BY <1>2 DEF NarrateEvent
  <2>4. Raws(soft) \subseteq Only(Leaks(event.type)) /\ Raws(LabelEventType(event.type)) = {}
    BY <2>2, SanitizedLeaves, AllLabelsHide
  <2>. HIDE DEF soft
  <2>. QED  BY <2>3, <2>4
<1>. QED  BY <1>1, <1>2

-----------------------------------------------------------------------------
\* The screen by itself.

ScreenSpec == ScreenInit /\ [][ScreenNext]_screenVars

\* What is drawn and listed came from the server.
Fetched ==
    /\ world = None \/ world \in Worlds
    /\ events = <<>> \/ events \in Feeds

LEMMA FetchedInvariance == ScreenSpec => []Fetched
<1>1. ScreenInit => Fetched
  BY DEF ScreenInit, Fetched
<1>2. Fetched /\ [ScreenNext]_screenVars => Fetched'
  BY DEF Fetched, ScreenNext, screenVars, Draw, ClickCanvas, ClickChip, ClickRow
<1>. QED  BY <1>1, <1>2, PTL DEF ScreenSpec

\* The ring of the canvas, the badge and the bars of the summary, the strip and the bars
\* of Diagnostics raise the same alarms, whatever the world.
THEOREM AlarmsCorrect ==
    ASSUME Documents
    PROVE  ScreenSpec => []AlarmsAgree
<1>1. Fetched => AlarmsAgree
  BY AlarmsOfWorld DEF Fetched, AlarmsAgree, Documents
<1>. QED  BY <1>1, FetchedInvariance, PTL

\* Of the tokens the server writes into its explanations, the prose of Simple View keeps
\* none of those behind a decision and of an event only the leaks of its type.
THEOREM TokensCorrect ==
    ASSUME Explained
    PROVE  ScreenSpec => []OnlyKnownLeaks
<1>1. Fetched => OnlyKnownLeaks
  <2>1. \A e : /\ Raws(CanvasTooltip(e, TRUE)) = {}
               /\ \A d \in Decisions : Raws(EntitySummary(e, d).texts) = {}
    BY TooltipHides, SummaryHides DEF Explained, Plain
  <2>2. ASSUME Fetched, NEW n \in DOMAIN events
        PROVE  Raws(NarrateEvent(events[n])) \subseteq Only(Leaks(events[n].type))
    <3>1. events \in Feeds
      BY <2>2 DEF Fetched
    <3>. QED  BY <3>1, EventsLeak DEF Explained
  <2>. QED  BY <2>1, <2>2 DEF OnlyKnownLeaks
<1>. QED  BY <1>1, FetchedInvariance, PTL

\* Everything that is drawn has a place, as long as no interaction of two people is under way.
AllDrawn == \A w \in Worlds : \A e \in w.entities : Drawn(e)

\* A click on the canvas never leaves the selection where it was, but for the entities
\* without a place: they alone are why the click of the run DeadClick is dead.
THEOREM ClicksCorrect ==
    ASSUME AllDrawn
    PROVE  ScreenSpec => ClickSelects
<1>1. Fetched /\ [ScreenNext]_screenVars => [Clicked]_screenVars
  <2>. SUFFICES ASSUME Fetched, ScreenNext, pointer' # pointer
                PROVE  Clicked
    BY DEF Clicked
  <2>1. PICK t \in Tiles : ClickCanvas(t)
    BY DEF ScreenNext, Draw, ClickChip, ClickRow
  <2>2. world \in Worlds /\ pointer' = t /\ HandleClick(t)
    BY <2>1 DEF ClickCanvas, Fetched
  <2>3. \A e \in world.entities : Drawn(e)
    BY <2>2 DEF AllDrawn
  <2>. DEFINE here == {e \in world.entities : e.position = t}
  <2>4. CASE here = {}
    BY <2>2, <2>3, <2>4 DEF HandleClick, SelectTile, Clicked
  <2>5. CASE here # {}
    <3>1. PICK e \in here : Select(e.order)
      BY <2>2, <2>3, <2>5 DEF HandleClick
    <3>2. e \in world.entities /\ Get(e, "position", None) = t /\ sel' = e.order
      BY <2>3, <3>1 DEF Select, Drawn, Get
    <3>. QED  BY <2>2, <3>2 DEF Clicked
  <2>. QED  BY <2>4, <2>5
<1>. QED  BY <1>1, FetchedInvariance, PTL DEF ScreenSpec, ClickSelects

-----------------------------------------------------------------------------
\* The dialogs.

\* What a call is made of is not known (its subject comes from a response), but
\* that it is a call is.
IsCall(r) == r = [kind |-> r.kind, of |-> r.of, live |-> r.live] /\ r.live \in BOOLEAN

AreCalls(c) == c = [i \in Calls |-> c[i]] /\ \A i \in Calls : IsCall(c[i])

\* Only the last load can still change the list, and while it can, it is loading.
OneLive ==
    \A i \in Calls : Is(i, "scenarios") /\ call[i].live => i = newest /\ loadingScenarios

\* The dialog knows of the creation under way, of which there is one.
CreatingInv ==
    /\ \A i \in Calls : Is(i, "create") => creating
    /\ \A i, j \in Calls : Is(i, "create") /\ Is(j, "create") => i = j

\* What is chosen is listed.
ChosenInv == scenarioId = Absent \/ scenarioId \in Ids(scenarios)

\* The inductive invariant.
DialogInv ==
    /\ AreCalls(call) /\ newest \in Calls
    /\ {showNew, loadingScenarios, creating, fresh} \subseteq BOOLEAN
    /\ OneLive
    /\ LatestLoadWins
    /\ CreatingInv
    /\ ChosenInv

\* What OneCreate says of one step.
CreatesOne ==
    \A i \in Calls : Asked(i) =>
        /\ call'[i].of \in Ids(scenarios)
        /\ \A j \in Calls : ~Is(j, "create")

Step == DialogInv' /\ CreatesOne

-----------------------------------------------------------------------------
\* Calls.

\* d is c with a call put in place i.
Placed(d, c, i, kind, of) ==
    /\ AreCalls(d)
    /\ d[i].kind = kind /\ d[i].of = of /\ d[i].live = TRUE
    /\ \A j \in Calls : j # i => d[j] = c[j]

LEMMA CallLemma ==
    ASSUME NEW c, AreCalls(c), NEW i \in Calls, NEW kind, NEW of
    PROVE  Placed([c EXCEPT ![i] = Call(kind, of)], c, i, kind, of)
<1>. DEFINE d == [c EXCEPT ![i] = Call(kind, of)]
<1>1. /\ d = [j \in Calls |-> d[j]]
      /\ d[i] = Call(kind, of) /\ \A j \in Calls : j # i => d[j] = c[j]
  BY DEF AreCalls
<1>2. IsCall(Call(kind, of))
  BY DEF IsCall, Call
<1>3. Call(kind, of).kind = kind /\ Call(kind, of).of = of /\ Call(kind, of).live = TRUE
  BY DEF Call
<1>4. ASSUME NEW j \in Calls
      PROVE  IsCall(d[j])
  <2>1. CASE j = i
    BY <1>1, <1>2, <2>1
  <2>2. CASE j # i
    BY <1>1, <2>2 DEF AreCalls
  <2>. QED  BY <2>1, <2>2
<1>5. AreCalls(d)
  BY <1>1, <1>4 DEF AreCalls
<1>6. Placed(d, c, i, kind, of)
  <2>. HIDE DEF d
  <2>. QED  BY <1>1, <1>3, <1>5 DEF Placed
<1>. QED  BY <1>6

\* d is c with its loads cancelled: calls still, which change nothing any more.
Cancelled(d, c) ==
    /\ AreCalls(d)
    /\ \A j \in Calls : d[j].kind = c[j].kind /\ d[j].of = c[j].of
    /\ \A j \in Calls : d[j].kind = "scenarios" => d[j].live = FALSE
    /\ \A j \in Calls : d[j].kind # "scenarios" => d[j] = c[j]

LEMMA CancelLemma ==
    ASSUME NEW c, AreCalls(c)
    PROVE  Cancelled(CancelLoad(c), c)
<1>. DEFINE d == CancelLoad(c)
<1>1. d = [j \in Calls |-> d[j]]
  BY DEF CancelLoad
<1>2. ASSUME NEW j \in Calls
      PROVE  /\ IsCall(d[j]) /\ d[j].kind = c[j].kind /\ d[j].of = c[j].of
             /\ d[j].kind = "scenarios" => d[j].live = FALSE
             /\ d[j].kind # "scenarios" => d[j] = c[j]
  <2>1. c[j] = [kind |-> c[j].kind, of |-> c[j].of, live |-> c[j].live] /\ IsCall(c[j])
    BY DEF AreCalls, IsCall
  <2>2. CASE c[j].kind = "scenarios"
    <3>1. d[j] = [c[j] EXCEPT !.live = FALSE]
      BY <2>2 DEF CancelLoad
    <3>2. d[j] = [kind |-> c[j].kind, of |-> c[j].of, live |-> FALSE]
      BY <2>1, <3>1
    <3>. QED  BY <2>2, <3>2 DEF IsCall
  <2>3. CASE c[j].kind # "scenarios"
    BY <2>1, <2>3 DEF CancelLoad
  <2>. QED  BY <2>2, <2>3
<1>3. AreCalls(d)
  BY <1>1, <1>2 DEF AreCalls
<1>4. Cancelled(d, c)
  <2>. HIDE DEF d
  <2>. QED  BY <1>2, <1>3 DEF Cancelled
<1>. QED  BY <1>4

\* A call that has ended is none.
LEMMA DoneLemma ==
    ASSUME NEW c, AreCalls(c), NEW i \in Calls
    PROVE  Placed(Done(c, i), c, i, "none", Absent)
BY CallLemma DEF Done, NoCall

-----------------------------------------------------------------------------
\* Actions.

LEMMA InitDialog == DialogInit => DialogInv
<1>. SUFFICES ASSUME DialogInit
              PROVE  DialogInv
  OBVIOUS
<1>1. PICK i \in Calls :
        newest = i /\ call = [j \in Calls |-> IF j = i THEN Call("scenarios", Absent) ELSE NoCall]
  BY DEF DialogInit
<1>2. /\ IsCall(NoCall) /\ NoCall.kind = "none"
      /\ IsCall(Call("scenarios", Absent)) /\ Call("scenarios", Absent).kind = "scenarios"
      /\ Call("scenarios", Absent).live = TRUE
  BY DEF IsCall, NoCall, Call
<1>3. AreCalls(call)
  <2>1. call = [j \in Calls |-> call[j]]
    BY <1>1
  <2>2. ASSUME NEW j \in Calls
        PROVE  IsCall(call[j])
    <3>1. call[j] = (IF j = i THEN Call("scenarios", Absent) ELSE NoCall)
      BY <1>1
    <3>. QED  BY <1>2, <3>1
  <2>. QED  BY <2>1, <2>2 DEF AreCalls
<1>4. call[i].kind = "scenarios" /\ call[i].live = TRUE
  BY <1>1, <1>2
<1>5. \A j \in Calls : j # i => call[j].kind = "none"
  BY <1>1, <1>2
<1>6. /\ loadingScenarios = TRUE /\ creating = FALSE /\ showNew = TRUE
      /\ scenarioId = Absent /\ fresh = FALSE
  BY DEF DialogInit
<1>7. OneLive /\ LatestLoadWins
  BY <1>1, <1>4, <1>5, <1>6 DEF OneLive, LatestLoadWins, Is
<1>8. CreatingInv /\ ChosenInv
  BY <1>4, <1>5, <1>6 DEF CreatingInv, ChosenInv, Is
<1>. QED  BY <1>1, <1>3, <1>6, <1>7, <1>8 DEF DialogInv

\* loadScenarios, of a dialog that is open by then.
LEMMA LoadStep ==
    ASSUME DialogInv, OpenNew \/ RetryScenarios
    PROVE  Step
<1>1. LoadScenarios(call) /\ showNew' = TRUE
  BY DEF OpenNew, RetryScenarios, DialogInv
<1>. DEFINE c == CancelLoad(call)
<1>2. AreCalls(call)
  BY DEF DialogInv
<1>3. PICK i \in Calls :
        /\ call' = [c EXCEPT ![i] = Call("scenarios", Absent)]
        /\ newest' = i /\ fresh' = FALSE /\ loadingScenarios' = TRUE
        /\ UNCHANGED <<scenarios, scenarioId, creating>>
  BY <1>1 DEF LoadScenarios, FreeCalls
<1>4. Cancelled(c, call)
  BY <1>2, CancelLemma
<1>. HIDE DEF c
<1>5. Placed(call', c, i, "scenarios", Absent)
  BY <1>3, <1>4, CallLemma DEF Cancelled
<1>. USE DEF Cancelled, Placed
<1>6. AreCalls(call)' /\ newest' \in Calls
  BY <1>3, <1>5 DEF AreCalls
<1>7. OneLive' /\ LatestLoadWins'
  BY <1>1, <1>3, <1>4, <1>5 DEF OneLive, LatestLoadWins, Is
<1>8. CreatingInv'
  BY <1>3, <1>4, <1>5 DEF DialogInv, CreatingInv, Is
<1>9. ChosenInv'
  BY <1>3 DEF DialogInv, ChosenInv
<1>10. CreatesOne
  BY <1>4, <1>5 DEF CreatesOne, Asked
<1>. QED  BY <1>1, <1>3, <1>6, <1>7, <1>8, <1>9, <1>10 DEF Step, DialogInv

\* Calls that bring no list and create nothing come and go: what the invariant says
\* is kept while the state of the dialog is.
LEMMA QuietCall ==
    ASSUME DialogInv, UNCHANGED <<newest, loadingScenarios, creating, fresh, scenarios>>,
           showNew' \in {showNew, FALSE}, ChosenInv', AreCalls(call'),
           \A j \in Calls : call'[j].kind = "create" => call'[j] = call[j],
           \A j \in Calls : call'[j].kind = "scenarios" =>
                call[j].kind = "scenarios" /\ (call'[j].live => call[j].live),
           showNew' => call'[newest] = call[newest] \/ ~Is(newest, "scenarios")
                            \/ ~call[newest].live
    PROVE  Step
<1>1. AreCalls(call)' /\ newest' \in Calls
  BY DEF DialogInv, AreCalls, IsCall
<1>2. OneLive'
  BY DEF DialogInv, OneLive, Is
<1>3. LatestLoadWins'
  BY DEF DialogInv, LatestLoadWins, Is
<1>4. CreatingInv'
  BY DEF DialogInv, CreatingInv, Is
<1>5. CreatesOne
  BY DEF CreatesOne, Asked
<1>. QED  BY <1>1, <1>2, <1>3, <1>4, <1>5 DEF Step, DialogInv

LEMMA ClosingStep ==
    ASSUME DialogInv, CloseNew \/ CloseLoad \/ \E id \in Ids(scenarios) : PickScenario(id)
    PROVE  Step
<1>1. AreCalls(call)
  BY DEF DialogInv
<1>2. CASE CloseNew
  <2>1. Cancelled(call', call) /\ showNew' = FALSE /\ UNCHANGED newVars
    BY <1>1, <1>2, CancelLemma DEF CloseNew
  <2>. QED  BY <1>1, <2>1, QuietCall DEF Cancelled, newVars, DialogInv, ChosenInv
<1>3. CASE CloseLoad
  BY <1>1, <1>3, QuietCall DEF CloseLoad, newVars, DialogInv, ChosenInv
<1>4. ASSUME NEW id \in Ids(scenarios), PickScenario(id)
      PROVE  Step
  BY <1>1, <1>4, QuietCall DEF PickScenario, ChosenInv
<1>. QED  BY <1>2, <1>3, <1>4

\* The calls of the other dialog.
LEMMA ListStep ==
    ASSUME DialogInv, OpenLoad \/ ClickRefresh \/ \E r \in runs : HandleLoad(r)
    PROVE  Step
<1>1. AreCalls(call)
  BY DEF DialogInv
<1>2. \E kind \in {"list", "get"}, of \in {Absent} \cup runs, i \in FreeCalls(call) :
        call' = [call EXCEPT ![i] = Call(kind, of)]
  <2>1. CASE OpenLoad \/ ClickRefresh
    <3>1. PICK i \in FreeCalls(call) : call' = [call EXCEPT ![i] = Call("list", Absent)]
      BY <2>1 DEF OpenLoad, ClickRefresh, RefreshRuns
    <3>. QED  BY <3>1, Zenon
  <2>2. ASSUME NEW r \in runs, HandleLoad(r)
        PROVE  \E kind \in {"list", "get"}, of \in {Absent} \cup runs, i \in FreeCalls(call) :
                    call' = [call EXCEPT ![i] = Call(kind, of)]
    <3>1. PICK i \in FreeCalls(call) : call' = [call EXCEPT ![i] = Call("get", r)]
      BY <2>2 DEF HandleLoad
    <3>. QED  BY <3>1, Zenon
  <2>. QED  BY <2>1, <2>2
<1>. PICK kind \in {"list", "get"}, of \in {Absent} \cup runs, i \in FreeCalls(call) :
        call' = [call EXCEPT ![i] = Call(kind, of)]
  BY <1>2
<1>3. UNCHANGED <<newVars, showNew>>
  BY DEF OpenLoad, ClickRefresh, HandleLoad, newVars
<1>4. i \in Calls /\ call[i].kind = "none"
  BY <1>2 DEF FreeCalls, NoCall, Call
<1>5. Placed(call', call, i, kind, of)
  BY <1>1, <1>2, <1>4, CallLemma
<1>6. ChosenInv'
  BY <1>3 DEF newVars, DialogInv, ChosenInv
<1>. QED  BY <1>2, <1>3, <1>4, <1>5, <1>6, QuietCall DEF Placed, newVars, Is

\* handleCreate.
LEMMA CreateStep ==
    ASSUME DialogInv, HandleCreate
    PROVE  Step
<1>1. AreCalls(call)
  BY DEF DialogInv
<1>2. PICK i \in FreeCalls(call) : call' = [call EXCEPT ![i] = Call("create", scenarioId)]
  BY DEF HandleCreate
<1>3. /\ creating' = TRUE /\ ~creating /\ scenarioId \in Ids(scenarios)
      /\ UNCHANGED <<showNew, scenarios, scenarioId, loadingScenarios, newest, fresh>>
  BY DEF HandleCreate, CanCreate, DialogInv, ChosenInv
<1>4. i \in Calls /\ call[i].kind = "none"
  BY <1>2 DEF FreeCalls, NoCall, Call
<1>5. Placed(call', call, i, "create", scenarioId)
  BY <1>1, <1>2, <1>4, CallLemma
<1>6. \A j \in Calls : ~Is(j, "create")
  BY <1>3 DEF DialogInv, CreatingInv
<1>7. AreCalls(call)' /\ newest' \in Calls
  BY <1>3, <1>5 DEF DialogInv, Placed, AreCalls, IsCall
<1>8. OneLive' /\ LatestLoadWins'
  BY <1>3, <1>4, <1>5 DEF DialogInv, OneLive, LatestLoadWins, Is, Placed
<1>9. CreatingInv'
  BY <1>3, <1>5, <1>6 DEF CreatingInv, Is, Placed
<1>10. ChosenInv'
  BY <1>3 DEF ChosenInv
<1>11. CreatesOne
  BY <1>3, <1>5, <1>6 DEF CreatesOne, Asked, Placed
<1>. QED  BY <1>3, <1>7, <1>8, <1>9, <1>10, <1>11 DEF Step, DialogInv

-----------------------------------------------------------------------------
\* Answers.

\* A load of scenarios ends.
LEMMA ScenariosStep ==
    ASSUME DialogInv, NEW i \in Calls,
           ScenariosFail(i) \/ \E response \in Responses : ScenariosArrive(i, response)
    PROVE  Step
<1>1. AreCalls(call)
  BY DEF DialogInv
<1>2. /\ call[i].kind = "scenarios" /\ call' = Done(call, i)
      /\ UNCHANGED <<showNew, creating, newest>>
  BY DEF ScenariosFail, ScenariosArrive, Is
<1>3. Placed(call', call, i, "none", Absent)
  BY <1>1, <1>2, DoneLemma
<1>4. CASE call[i].live
  <2>1. i = newest /\ \A j \in Calls : Is(j, "scenarios") /\ call[j].live => j = i
    BY <1>2, <1>4 DEF DialogInv, OneLive, Is
  <2>2. loadingScenarios' = FALSE /\ fresh' = TRUE
    BY <1>4, <2>1 DEF ScenariosFail, ScenariosArrive
  <2>3. ChosenInv'
    <3>1. CASE ScenariosFail(i)
      BY <1>4, <3>1 DEF ScenariosFail, ChosenInv
    <3>2. ASSUME NEW response \in Responses, ScenariosArrive(i, response)
          PROVE  ChosenInv'
      <4>1. PICK list : scenarios' = list /\ scenarioId' = Chosen(list, scenarioId)
        BY <1>4, <3>2 DEF ScenariosArrive
      <4>. QED  BY <4>1 DEF Chosen, ChosenInv, Ids
    <3>. QED  BY <3>1, <3>2
  <2>4. AreCalls(call)' /\ newest' \in Calls
    BY <1>2, <1>3 DEF DialogInv, Placed, AreCalls, IsCall
  <2>5. OneLive' /\ LatestLoadWins'
    BY <1>2, <1>3, <2>1, <2>2 DEF OneLive, LatestLoadWins, Is, Placed
  <2>6. CreatingInv'
    BY <1>2, <1>3 DEF DialogInv, CreatingInv, Is, Placed
  <2>7. CreatesOne
    BY <1>3 DEF CreatesOne, Asked, Placed
  <2>. QED  BY <1>2, <2>2, <2>3, <2>4, <2>5, <2>6, <2>7 DEF Step, DialogInv
<1>5. CASE ~call[i].live
  <2>1. UNCHANGED <<scenarios, scenarioId, loadingScenarios, fresh>>
    BY <1>5 DEF ScenariosFail, ScenariosArrive
  <2>2. ChosenInv'
    BY <2>1 DEF DialogInv, ChosenInv
  <2>3. call'[newest] = call[newest] \/ ~call[newest].live
    BY <1>3, <1>5 DEF Placed, DialogInv
  <2>. QED  BY <1>2, <1>3, <2>1, <2>2, <2>3, QuietCall DEF Placed
<1>. QED  BY <1>4, <1>5

\* Another call ends: the dialog of a creation learns of it, whichever way it went.
LEMMA CreationEnds ==
    ASSUME DialogInv, NEW i \in Calls, call[i].kind = "create", creating' = FALSE,
           UNCHANGED <<newest, loadingScenarios, fresh, scenarios, scenarioId>>,
           AreCalls(call'),
           \A j \in Calls : call'[j].kind = "create" => j # i /\ call'[j] = call[j],
           \A j \in Calls : call'[j].kind = "scenarios" =>
                call[j].kind = "scenarios" /\ (call'[j].live => call[j].live),
           showNew' = FALSE \/ (showNew' = showNew /\ \A j \in Calls : j # i => call'[j] = call[j])
    PROVE  Step
<1>1. AreCalls(call)' /\ newest' \in Calls
  BY DEF DialogInv, AreCalls, IsCall
<1>2. OneLive'
  BY DEF DialogInv, OneLive, Is
<1>3. LatestLoadWins'
  BY DEF DialogInv, LatestLoadWins, Is
<1>4. CreatingInv'
  BY DEF DialogInv, CreatingInv, Is
<1>5. ChosenInv'
  BY DEF DialogInv, ChosenInv
<1>6. CreatesOne
  BY DEF CreatesOne, Asked
<1>. QED  BY <1>1, <1>2, <1>3, <1>4, <1>5, <1>6 DEF Step, DialogInv

LEMMA AnswerStep ==
    ASSUME DialogInv, NEW i \in Calls,
           \/ Loaded(i) \/ OtherFails(i)
           \/ \E r \in DialogRuns : Created(i, r)
           \/ \E rs \in SUBSET DialogRuns : Listed(i, rs)
    PROVE  Step
<1>. DEFINE d == Done(call, i)
<1>1. AreCalls(call) /\ Placed(d, call, i, "none", Absent)
  BY DoneLemma DEF DialogInv
<1>2. Cancelled(CancelLoad(d), d)
  BY <1>1, CancelLemma DEF Placed
<1>3. ChosenInv
  BY DEF DialogInv
<1>. HIDE DEF d
<1>4. ASSUME NEW r \in DialogRuns, Created(i, r)
      PROVE  Step
  <2>1. /\ call[i].kind = "create" /\ creating' = FALSE /\ showNew' = FALSE
        /\ call' = CancelLoad(d)
        /\ UNCHANGED <<newest, loadingScenarios, fresh, scenarios, scenarioId>>
    BY <1>4 DEF Created, RunReady, Is, d
  <2>. QED  BY <1>1, <1>2, <2>1, CreationEnds DEF Placed, Cancelled
<1>5. CASE Loaded(i)
  <2>1. /\ call[i].kind = "get" /\ showNew' = FALSE /\ call' = CancelLoad(d)
        /\ UNCHANGED newVars
    BY <1>5 DEF Loaded, RunReady, Is, d
  <2>2. ChosenInv'
    BY <1>3, <2>1 DEF newVars, ChosenInv
  <2>. QED  BY <1>1, <1>2, <2>1, <2>2, QuietCall DEF newVars, Placed, Cancelled
<1>6. ASSUME NEW rs \in SUBSET DialogRuns, Listed(i, rs)
      PROVE  Step
  <2>1. call[i].kind = "list" /\ call' = d /\ UNCHANGED <<showNew, newVars>>
    BY <1>6 DEF Listed, Is, d
  <2>2. ChosenInv'
    BY <1>3, <2>1 DEF newVars, ChosenInv
  <2>3. call'[newest] = call[newest] \/ ~Is(newest, "scenarios")
    BY <1>1, <2>1 DEF DialogInv, Placed, Is
  <2>4. \A j \in Calls : call'[j] = call[j] \/ call'[j].kind = "none"
    BY <1>1, <2>1 DEF Placed
  <2>5. AreCalls(call')
    BY <1>1, <2>1 DEF Placed
  <2>. QED  BY <2>1, <2>2, <2>3, <2>4, <2>5, QuietCall DEF newVars
<1>7. CASE OtherFails(i)
  <2>1. /\ call[i].kind # "scenarios" /\ call' = d
        /\ creating' = (creating /\ call[i].kind # "create")
        /\ UNCHANGED <<showNew, scenarios, scenarioId, loadingScenarios, newest, fresh>>
    BY <1>7 DEF OtherFails, Is, d
  <2>2. CASE call[i].kind = "create"
    BY <1>1, <2>1, <2>2, CreationEnds DEF Placed
  <2>3. CASE call[i].kind # "create"
    <3>1. creating' = creating
      BY <2>1, <2>3 DEF DialogInv
    <3>2. ChosenInv'
      BY <1>3, <2>1 DEF ChosenInv
    <3>3. call'[newest] = call[newest] \/ ~Is(newest, "scenarios")
      BY <1>1, <2>1 DEF DialogInv, Placed, Is
    <3>4. \A j \in Calls : call'[j] = call[j] \/ call'[j].kind = "none"
      BY <1>1, <2>1 DEF Placed
    <3>5. AreCalls(call')
      BY <1>1, <2>1 DEF Placed
    <3>. QED  BY <2>1, <3>1, <3>2, <3>3, <3>4, <3>5, QuietCall
  <2>. QED  BY <2>2, <2>3
<1>. QED  BY <1>4, <1>5, <1>6, <1>7

-----------------------------------------------------------------------------
\* The dialogs by themselves; MCFrontend lets them go on beside the other parts of
\* the page, with which they share no state.
DialogSpec == DialogInit /\ [][DialogNext]_dialogVars

LEMMA DialogStep == DialogInv /\ [DialogNext]_dialogVars => Step
<1>. SUFFICES ASSUME DialogInv, [DialogNext]_dialogVars
              PROVE  Step
  OBVIOUS
<1>1. CASE UNCHANGED dialogVars
  <2>1. AreCalls(call')
    BY <1>1 DEF dialogVars, DialogInv
  <2>. QED  BY <1>1, <2>1, QuietCall DEF dialogVars, newVars, DialogInv, ChosenInv
<1>. QED  BY <1>1, LoadStep, ClosingStep, ListStep, CreateStep, ScenariosStep, AnswerStep
          DEF DialogNext

\* The inductive invariant, for any responses and any order of the answers.
THEOREM DialogInvariance == DialogSpec => []DialogInv
<1>1. DialogInv /\ [DialogNext]_dialogVars => DialogInv'
  BY DialogStep DEF Step
<1>. QED  BY <1>1, InitDialog, PTL DEF DialogSpec

\* NewRunModal.jsx:18: however often the dialog is closed, opened again or retried,
\* the list shown is that of the last load, or the last load is under way.
THEOREM LatestLoadCorrect == DialogSpec => []LatestLoadWins
<1>1. DialogInv => LatestLoadWins
  BY DEF DialogInv
<1>. QED  BY <1>1, DialogInvariance, PTL

\* handleCreate asks for one run at a time, of a scenario that was listed, although
\* the dialog may be closed and opened again while one is being created.
THEOREM OneCreateCorrect == DialogSpec => OneCreate
<1>1. DialogInv /\ [DialogNext]_dialogVars => [CreatesOne]_dialogVars
  BY DialogStep DEF Step
<1>2. OneCreate <=> [][CreatesOne]_dialogVars
  BY PTL DEF OneCreate, CreatesOne
<1>. QED  BY <1>1, <1>2, DialogInvariance, PTL DEF DialogSpec
=============================================================================
