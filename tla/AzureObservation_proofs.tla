---------------------- MODULE AzureObservation_proofs ----------------------
(***************************************************************************)
(* What may be relied on in the results of those who look at an estate     *)
(* that changes as they look (the reality observer and the clean-up        *)
(* assessment), and of the evaluation of attestations, which looks at      *)
(* nothing but its records.                                                *)
(***************************************************************************)
EXTENDS AzureObservation, ConvergenceAttestation, SequenceTheorems, TLAPS

-----------------------------------------------------------------------------
(* The history of the estate: it has a last state, every state of it is    *)
(* one Azure can be in, and it only grows.                                 *)

HistoryOK ==
  /\ past \in Seq(Estates) /\ past # <<>>
  /\ \A i \in 1..Len(past) : Consistent(past[i])

(* The history goes on from p: what was is not rewritten. *)
GoesOn ==
  /\ past' \in Seq(Estates)
  /\ Len(past) <= Len(past')
  /\ \A i \in 1..Len(past) : past'[i] = past[i]

LEMMA PresentEstate ==
  ASSUME HistoryOK
  PROVE  /\ Len(past) \in Nat /\ Len(past) >= 1
         /\ estate = past[Len(past)] /\ estate \in Estates /\ Consistent(estate)
<1>1. Len(past) \in Nat /\ Len(past) >= 1
  BY EmptySeq DEF HistoryOK
<1>2. estate = past[Len(past)]
  BY DEF estate, Last
<1>3. Len(past) \in 1..Len(past)
  BY <1>1
<1> QED BY <1>1, <1>2, <1>3 DEF HistoryOK

(* Whatever changes in Azure leaves no reference and no tag behind. *)
LEMMA ChangesAreConsistent ==
  ASSUME NEW w \in Estates, Consistent(w),
         NEW v \in RepositoryChanges(w) \cup SessionChanges(w)
                     \cup GroupChanges(w) \cup SettingChanges(w)
  PROVE  v \in Estates /\ Consistent(v)
<1> USE AzureEstateAssumption DEF Estates, Consistent
<1>1. CASE v \in RepositoryChanges(w)
  <2>1. PICK c \in Commits : v = [w EXCEPT !.head = c, !.index = c] \/ v = [w EXCEPT !.index = c]
    BY <1>1, Zenon DEF RepositoryChanges
  <2> DEFINE headed == [w EXCEPT !.head = c]
  <2>2. headed \in Estates /\ Consistent(headed)
    OBVIOUS
  <2>3. v = [headed EXCEPT !.index = c] \/ v = [w EXCEPT !.index = c]
    BY <2>1
  <2> HIDE DEF headed
  <2> QED BY <2>2, <2>3
<1>2. CASE v \in SessionChanges(w)
  <2>1. CASE \E p \in {"allowed", "other"} : v = [w EXCEPT !.profile = p]
    BY <2>1
  <2>2. CASE v = [w EXCEPT !.access = ~@]
    BY <2>2
  <2> QED BY <1>2, <2>1, <2>2 DEF SessionChanges
<1>3. ASSUME NEW gone, NEW u, u = Without(w, gone) PROVE u \in Estates /\ Consistent(u)
  BY <1>3 DEF Without
<1>4. CASE v \in GroupChanges(w)
  <2>1. CASE v = [w EXCEPT !.group = TRUE]
    BY <2>1
  <2>2. CASE v = [Without(w, w.resources) EXCEPT !.group = FALSE]
    <3> DEFINE emptied == Without(w, w.resources)
    <3>1. emptied \in Estates /\ Consistent(emptied)
      BY <1>3
    <3> HIDE DEF emptied
    <3>2. v = [emptied EXCEPT !.group = FALSE]
      BY <2>2 DEF emptied
    <3> QED BY <3>1, <3>2
  <2>3. CASE \E r \in Resources : v = [w EXCEPT !.resources = @ \cup {r}]
    BY <2>3
  <2>4. CASE \E r : v = Without(w, {r})
    BY <2>4, <1>3
  <2> QED BY <1>4, <2>1, <2>2, <2>3, <2>4 DEF GroupChanges
<1>5. CASE v \in SettingChanges(w)
  <2>1. CASE \E a \in Accounts : v = [w EXCEPT !.deployed = (@ \cup {a}) \ (@ \cap {a})]
    BY <2>1
  <2>2. CASE \E h \in Holders \cap w.resources : v = [w EXCEPT !.attached = (@ \cup {h}) \ (@ \cap {h})]
    BY <2>2
  <2>3. CASE \E t \in Tags : t[1] \in w.resources /\ v = [w EXCEPT !.tags = (@ \cup {t}) \ (@ \cap {t})]
    BY <2>3
  <2> QED BY <1>5, <2>1, <2>2, <2>3 DEF SettingChanges
<1> QED BY <1>1, <1>2, <1>4, <1>5

LEMMA ChangeGoesOn ==
  ASSUME HistoryOK, Change
  PROVE  HistoryOK' /\ GoesOn
<1>1. PICK w \in RepositoryChanges(estate) \cup SessionChanges(estate)
                   \cup GroupChanges(estate) \cup SettingChanges(estate) :
        past' = Append(past, w)
  BY DEF Change
<1>2. w \in Estates /\ Consistent(w)
  BY PresentEstate, ChangesAreConsistent
<1>3. /\ past' \in Seq(Estates) /\ Len(past') = Len(past) + 1
      /\ \A i \in 1..Len(past) : past'[i] = past[i]
      /\ past'[Len(past) + 1] = w
  BY <1>1, <1>2, AppendProperties DEF HistoryOK
<1>4. Len(past) \in Nat
  BY PresentEstate
<1>5. ASSUME NEW i \in 1..Len(past') PROVE Consistent(past[i])'
  <2>1. i \in 1..Len(past) \/ i = Len(past) + 1
    BY <1>3, <1>4
  <2> QED BY <1>2, <1>3, <2>1 DEF HistoryOK, Consistent
<1> QED BY <1>1, <1>3, <1>4, <1>5, EmptySeq DEF HistoryOK, GoesOn

-----------------------------------------------------------------------------
(* The reality observer.  What it has read so far was true, part by part   *)
(* and in the order it was read: there is a moment of the history for each *)
(* command that has answered, none of them before the one preceding it.    *)

Read == {"status", "account", "group", "list", "deployments", "index", "done"}

Deployments == UNION {[S -> BOOLEAN] : S \in SUBSET Accounts}

ObsTyped ==
  obs \in [pc : {"idle", "failed", "head"} \cup Read, from : Nat, limits : Nat \X Nat,
            head : Commits \cup {"unread"}, clean : BOOLEAN,
            status : {"unread", "observed", "not_present"},
            resources : SUBSET Resources, todo : SUBSET Accounts,
            deployments : Deployments,
            index : Commits \cup {"unread"}]

(* The head was read at i, the status at j, the account at k, the group at *)
(* l and the list at m; the accounts between m and n, the index at n.      *)
Ordered(i, j, k, l, m, n) ==
  obs.from <= i /\ i <= j /\ j <= k /\ k <= l /\ l <= m /\ m <= n /\ n <= Len(past)

TrueAt(i, j, k, l, m, n) ==
  /\ Ordered(i, j, k, l, m, n)
  /\ obs.pc \in Read => past[i].head = obs.head
  /\ obs.pc \in Read \ {"status"} => Clean(past[j]) = obs.clean
  /\ obs.pc \in Read \ {"status", "account"} => past[k].profile = "allowed"
  /\ obs.status = "observed" => past[l].group /\ past[l].access
  /\ obs.status = "not_present" => ~past[l].group \/ ~past[l].access
  /\ obs.status = "observed" /\ obs.pc \in {"deployments", "index", "done"} =>
       /\ past[m].resources = obs.resources
       /\ \A a \in DOMAIN obs.deployments : \E p \in m..n :
             a \in past[p].resources /\ obs.deployments[a] = (a \in past[p].deployed)
  /\ obs.pc = "done" => past[n].index = obs.index

(* The accounts still to be asked are those of the inventory that have no  *)
(* answer yet.                                                             *)
Progress ==
  /\ obs.pc \in {"head", "status", "account", "group"} => obs.status = "unread"
  /\ obs.pc \in {"list", "deployments"} => obs.status = "observed"
  /\ obs.pc \in {"index", "done"} => obs.status \in {"observed", "not_present"}
  /\ obs.pc \in {"head", "status", "account", "group", "list"} \/ obs.status = "not_present" =>
       obs.resources = {} /\ obs.deployments = <<>>
  /\ obs.pc = "deployments" =>
       /\ obs.todo # {}
       /\ DOMAIN obs.deployments = (obs.resources \cap Accounts) \ obs.todo
       /\ obs.todo \subseteq obs.resources \cap Accounts
  /\ obs.pc \in {"index", "done"} /\ obs.status = "observed" =>
       DOMAIN obs.deployments = obs.resources \cap Accounts

ReadTruly ==
  obs.pc \in Read \cup {"head"} =>
    \E i, j, k, l, m, n \in Nat \ {0} : TrueAt(i, j, k, l, m, n)

ObserverInv == ObsTyped /\ Progress /\ ReadTruly

LEMMA NoDeployments == <<>> \in Deployments /\ DOMAIN <<>> = {}
<1>1. <<>> \in [{} -> BOOLEAN] /\ DOMAIN <<>> = {}
  OBVIOUS
<1>2. {} \in SUBSET Accounts
  OBVIOUS
<1> QED BY <1>1, <1>2 DEF Deployments

(* A call that has not begun, or was given up, has read nothing. *)
LEMMA NothingRead ==
  /\ obs \in {Idle, Failed} => ObserverInv
  /\ obs' \in {Idle, Failed} => ObserverInv'
<1> DEFINE Record == [pc : {"idle", "failed", "head"} \cup Read, from : Nat, limits : Nat \X Nat,
            head : Commits \cup {"unread"}, clean : BOOLEAN,
            status : {"unread", "observed", "not_present"},
            resources : SUBSET Resources, todo : SUBSET Accounts,
            deployments : Deployments,
            index : Commits \cup {"unread"}]
<1>1. Idle \in Record /\ Failed \in Record
  <2>1. <<0, 0>> \in Nat \X Nat
    OBVIOUS
  <2>2. Idle \in Record
    BY <2>1, NoDeployments DEF Idle, Read
  <2>3. Failed = [Idle EXCEPT !.pc = "failed"]
    BY DEF Failed
  <2> HIDE DEF Record
  <2> QED BY <2>2, <2>3 DEF Record, Read
<1> HIDE DEF Record
<1>2. /\ Idle.pc \in {"idle", "failed"} /\ Idle.status = "unread"
      /\ Failed.pc \in {"idle", "failed"} /\ Failed.status = "unread"
  BY DEF Idle, Failed
<1>3. ASSUME obs \in {Idle, Failed} PROVE ObserverInv
  <2>1. ObsTyped
    BY <1>1, <1>3 DEF ObsTyped, Record
  <2> QED BY <1>2, <1>3, <2>1 DEF ObserverInv, Progress, ReadTruly, Read
<1>4. ASSUME obs' \in {Idle, Failed} PROVE ObserverInv'
  <2>1. ObsTyped'
    BY <1>1, <1>4 DEF ObsTyped, Record
  <2> QED BY <1>2, <1>4, <2>1 DEF ObserverInv, Progress, ReadTruly, Read
<1> QED BY <1>3, <1>4

LEMMA ConfigureKeeps ==
  ASSUME HistoryOK, ObserverInv, Configure, UNCHANGED past
  PROVE  ObserverInv'
<1>1. CASE obs' = Failed
  BY <1>1, NothingRead
<1>2. CASE obs' # Failed
  <2>1. PICK env \in Environments :
          /\ FromEnv(env)
          /\ obs' = [Idle EXCEPT !.pc = "head", !.from = Len(past),
                                 !.limits = <<env.max_resources, env.max_accounts>>]
    BY <1>2 DEF Configure
  <2>2. <<env.max_resources, env.max_accounts>> \in Nat \X Nat
    BY <2>1 DEF FromEnv
  <2>3. Len(past) \in Nat \ {0} /\ past' = past
    BY PresentEstate
  <2>4. ObsTyped'
    BY <2>1, <2>2, <2>3, NoDeployments DEF ObsTyped, Idle, Read
  <2>5. obs'.pc = "head" /\ obs'.status = "unread" /\ obs'.from = Len(past)
        /\ obs'.resources = {} /\ obs'.deployments = <<>>
    BY <2>1 DEF Idle
  <2>6. Progress'
    BY <2>5 DEF Progress
  <2>7. TrueAt(Len(past), Len(past), Len(past), Len(past), Len(past), Len(past))'
    BY <2>3, <2>5 DEF TrueAt, Ordered, Read
  <2>8. ReadTruly'
    BY <2>3, <2>7 DEF ReadTruly
  <2> QED BY <2>4, <2>6, <2>8 DEF ObserverInv
<1> QED BY <1>1, <1>2

(* A command that answers is true of the present estate, which is no older *)
(* than what was read before it.                                           *)
LEMMA ReadHeadKeeps ==
  ASSUME HistoryOK, ObserverInv, ReadHead, UNCHANGED past
  PROVE  ObserverInv'
<1> DEFINE L == Len(past)
<1>1. /\ obs.pc = "head" /\ obs' = [obs EXCEPT !.pc = "status", !.head = estate.head]
      /\ L \in Nat \ {0} /\ estate = past[L] /\ estate \in Estates
  BY PresentEstate DEF ReadHead
<1>2. ObsTyped'
  BY <1>1 DEF ObserverInv, ObsTyped, Read, Estates
<1>3. /\ obs'.pc = "status" /\ obs'.head = past[L].head /\ obs'.from = obs.from
      /\ obs'.status = obs.status /\ obs'.resources = obs.resources
      /\ obs'.deployments = obs.deployments
  BY <1>1 DEF ObserverInv, ObsTyped
<1>4. Progress' /\ obs.status = "unread"
  BY <1>1, <1>3 DEF ObserverInv, Progress
<1>5. obs.from \in Nat /\ obs.from <= L
  BY <1>1 DEF ObserverInv, ObsTyped, ReadTruly, TrueAt, Ordered
<1>6. TrueAt(L, L, L, L, L, L)'
  BY <1>1, <1>3, <1>4, <1>5 DEF TrueAt, Ordered, Read
<1>7. ReadTruly'
  BY <1>1, <1>6 DEF ReadTruly
<1> QED BY <1>2, <1>4, <1>7 DEF ObserverInv

LEMMA ReadStatusKeeps ==
  ASSUME HistoryOK, ObserverInv, ReadStatus, UNCHANGED past
  PROVE  ObserverInv'
<1> DEFINE L == Len(past)
<1>1. /\ obs.pc = "status" /\ obs' = [obs EXCEPT !.pc = "account", !.clean = Clean(estate)]
      /\ L \in Nat \ {0} /\ estate = past[L] /\ estate \in Estates
  BY PresentEstate DEF ReadStatus
<1>2. ObsTyped'
  BY <1>1 DEF ObserverInv, ObsTyped, Read, Clean
<1>3. /\ obs'.pc = "account" /\ obs'.clean = Clean(past[L]) /\ obs'.from = obs.from
      /\ obs'.head = obs.head
      /\ obs'.status = obs.status /\ obs'.resources = obs.resources
      /\ obs'.deployments = obs.deployments
  BY <1>1 DEF ObserverInv, ObsTyped
<1>4. Progress' /\ obs.status = "unread"
  BY <1>1, <1>3 DEF ObserverInv, Progress
<1>5. PICK i \in Nat \ {0} : obs.from <= i /\ i <= L /\ past[i].head = obs.head
  BY <1>1 DEF ObserverInv, ReadTruly, TrueAt, Ordered, Read
<1>6. TrueAt(i, L, L, L, L, L)'
  BY <1>1, <1>3, <1>4, <1>5 DEF TrueAt, Ordered, Read, Clean
<1>7. ReadTruly'
  BY <1>1, <1>6 DEF ReadTruly
<1> QED BY <1>2, <1>4, <1>7 DEF ObserverInv

LEMMA CheckAccountKeeps ==
  ASSUME HistoryOK, ObserverInv, CheckAccount, UNCHANGED past
  PROVE  ObserverInv'
<1> DEFINE L == Len(past)
<1>1. CASE obs' = Failed
  BY <1>1, NothingRead
<1>2. CASE obs' # Failed
  <2>1. /\ obs.pc = "account" /\ obs' = [obs EXCEPT !.pc = "group"]
        /\ L \in Nat \ {0} /\ estate = past[L] /\ past[L].profile = "allowed"
    BY <1>2, PresentEstate DEF CheckAccount, AccountContext
  <2>2. ObsTyped'
    BY <2>1 DEF ObserverInv, ObsTyped, Read
  <2>3. /\ obs'.pc = "group" /\ obs'.from = obs.from
        /\ obs'.head = obs.head /\ obs'.clean = obs.clean
        /\ obs'.status = obs.status /\ obs'.resources = obs.resources
        /\ obs'.deployments = obs.deployments
    BY <2>1 DEF ObserverInv, ObsTyped
  <2>4. Progress' /\ obs.status = "unread"
    BY <2>1, <2>3 DEF ObserverInv, Progress
  <2>5. PICK i \in Nat \ {0}, j \in Nat \ {0} :
          /\ obs.from <= i /\ i <= j /\ j <= L
          /\ past[i].head = obs.head /\ Clean(past[j]) = obs.clean
    BY <2>1 DEF ObserverInv, ReadTruly, TrueAt, Ordered, Read
  <2>6. TrueAt(i, j, L, L, L, L)'
    BY <2>1, <2>3, <2>4, <2>5 DEF TrueAt, Ordered, Read, Clean
  <2>7. ReadTruly'
    BY <2>1, <2>6 DEF ReadTruly
  <2> QED BY <2>2, <2>4, <2>7 DEF ObserverInv
<1> QED BY <1>1, <1>2

(* az group show: what counts as absence is an absent group, or lost       *)
(* access.                                                                 *)
LEMMA ShowGroupKeeps ==
  ASSUME HistoryOK, ObserverInv, ShowGroup, UNCHANGED past
  PROVE  ObserverInv'
<1> DEFINE L == Len(past)
<1>1. CASE obs' = Failed
  BY <1>1, NothingRead
<1>2. CASE obs' # Failed
  <2>1. /\ obs.pc = "group"
        /\ L \in Nat \ {0} /\ estate = past[L]
        /\ \/ /\ obs' = [obs EXCEPT !.pc = "list", !.status = "observed"]
              /\ past[L].group /\ past[L].access
           \/ /\ obs' = [obs EXCEPT !.pc = "index", !.status = "not_present"]
              /\ ~past[L].group \/ ~past[L].access
    <3>1. obs.pc = "group" /\ L \in Nat \ {0} /\ estate = past[L]
      BY PresentEstate DEF ShowGroup
    <3>2. \/ /\ obs' = [obs EXCEPT !.pc = "list", !.status = "observed"]
             /\ estate.group /\ estate.access
          \/ /\ obs' = [obs EXCEPT !.pc = "index", !.status = "not_present"]
             /\ ~estate.group \/ ~estate.access
      BY <1>2, ZenonT(60) DEF ShowGroup, RunJson, Answers
    <3> QED BY <3>1, <3>2
  <2>2. ObsTyped'
    BY <2>1 DEF ObserverInv, ObsTyped, Read
  <2>3. /\ obs'.from = obs.from
        /\ obs'.head = obs.head /\ obs'.clean = obs.clean
        /\ obs'.resources = obs.resources
        /\ obs'.deployments = obs.deployments
        /\ \/ obs'.pc = "list" /\ obs'.status = "observed" /\ past[L].group /\ past[L].access
           \/ obs'.pc = "index" /\ obs'.status = "not_present" /\ (~past[L].group \/ ~past[L].access)
    BY <2>1 DEF ObserverInv, ObsTyped
  <2>4. Progress' /\ obs.deployments = <<>> /\ obs.status = "unread"
    BY <2>1, <2>3 DEF ObserverInv, Progress
  <2>5. PICK i \in Nat \ {0}, j \in Nat \ {0}, k \in Nat \ {0} :
          /\ obs.from <= i /\ i <= j /\ j <= k /\ k <= L
          /\ past[i].head = obs.head /\ Clean(past[j]) = obs.clean
          /\ past[k].profile = "allowed"
    BY <2>1 DEF ObserverInv, ReadTruly, TrueAt, Ordered, Read
  <2>6. TrueAt(i, j, k, L, L, L)'
    BY <2>1, <2>3, <2>5 DEF TrueAt, Ordered, Read, Clean
  <2>7. ReadTruly'
    BY <2>1, <2>6 DEF ReadTruly
  <2> QED BY <2>2, <2>4, <2>7 DEF ObserverInv
<1> QED BY <1>1, <1>2

LEMMA ListResourcesKeeps ==
  ASSUME HistoryOK, ObserverInv, ListResources, UNCHANGED past
  PROVE  ObserverInv'
<1> DEFINE L == Len(past)
           accounts == estate.resources \cap Accounts
<1>1. CASE obs' = Failed
  BY <1>1, NothingRead
<1>2. CASE obs' # Failed
  <2>1. /\ obs.pc = "list"
        /\ L \in Nat \ {0} /\ estate = past[L] /\ estate \in Estates
        /\ obs' = [obs EXCEPT !.pc = IF accounts = {} THEN "index" ELSE "deployments",
                              !.resources = estate.resources,
                              !.todo = accounts]
    <3>1. PICK answer \in Answers(estate, estate.group) :
            obs' = IF /\ RunJson(answer, FALSE) = "value"
                      /\ Cardinality(estate.resources) <= obs.limits[1]
                      /\ Cardinality(accounts) <= obs.limits[2]
                   THEN [obs EXCEPT !.pc = IF accounts = {} THEN "index" ELSE "deployments",
                                    !.resources = estate.resources,
                                    !.todo = accounts]
                   ELSE Failed
      BY Zenon DEF ListResources
    <3>2. obs.pc = "list"
      BY DEF ListResources
    <3> HIDE DEF accounts
    <3>3. obs' = [obs EXCEPT !.pc = IF accounts = {} THEN "index" ELSE "deployments",
                              !.resources = estate.resources,
                              !.todo = accounts]
      BY <1>2, <3>1
    <3> QED BY <3>2, <3>3, PresentEstate
  <2>2. estate.resources \in SUBSET Resources /\ accounts \in SUBSET Accounts
    BY <2>1 DEF Estates
  <2>3. ObsTyped'
    BY <2>1, <2>2 DEF ObserverInv, ObsTyped, Read
  <2>4. /\ obs'.from = obs.from
        /\ obs'.head = obs.head /\ obs'.clean = obs.clean
        /\ obs'.status = obs.status
        /\ obs'.resources = estate.resources
        /\ obs'.todo = accounts
        /\ obs'.deployments = obs.deployments
        /\ obs'.pc = IF accounts = {} THEN "index" ELSE "deployments"
    BY <2>1 DEF ObserverInv, ObsTyped
  <2>5. obs.deployments = <<>> /\ obs.status = "observed"
    BY <2>1 DEF ObserverInv, Progress
  <2>6. Progress'
    BY <2>4, <2>5, NoDeployments DEF Progress
  <2>7. PICK i \in Nat \ {0}, j \in Nat \ {0}, k \in Nat \ {0}, l \in Nat \ {0} :
          /\ obs.from <= i /\ i <= j /\ j <= k /\ k <= l /\ l <= L
          /\ past[i].head = obs.head /\ Clean(past[j]) = obs.clean
          /\ past[k].profile = "allowed"
          /\ past[l].group /\ past[l].access
    BY <2>1, <2>5 DEF ObserverInv, ReadTruly, TrueAt, Ordered, Read
  <2>8. TrueAt(i, j, k, l, L, L)'
    <3> HIDE DEF accounts
    <3> QED BY <2>1, <2>4, <2>5, <2>7, NoDeployments DEF TrueAt, Ordered, Read, Clean
  <2>9. ReadTruly'
    BY <2>1, <2>8 DEF ReadTruly
  <2> QED BY <2>3, <2>6, <2>9 DEF ObserverInv
<1> QED BY <1>1, <1>2

(* Each account is asked once; what the earlier ones answered stays true   *)
(* of the moment they were asked at.                                       *)
LEMMA ListDeploymentsKeeps ==
  ASSUME HistoryOK, ObserverInv, ListDeployments, UNCHANGED past
  PROVE  ObserverInv'
<1> DEFINE L == Len(past)
<1>1. CASE obs' = Failed
  BY <1>1, NothingRead
<1>2. CASE obs' # Failed
  <2>1. PICK a \in obs.todo : \E answer \in Answers(estate, TRUE) :
          obs' = IF RunJson(answer, FALSE) = "value" /\ a \in estate.resources
                 THEN [obs EXCEPT !.pc = IF obs.todo = {a} THEN "index" ELSE "deployments",
                                  !.todo = @ \ {a},
                                  !.deployments = [b \in DOMAIN @ \cup {a} |->
                                     IF b = a THEN a \in estate.deployed ELSE @[b]]]
                 ELSE Failed
    BY DEF ListDeployments
  <2> DEFINE answers == [b \in DOMAIN obs.deployments \cup {a} |->
                           IF b = a THEN a \in estate.deployed ELSE obs.deployments[b]]
  <2>2. /\ a \in estate.resources
        /\ obs' = [obs EXCEPT !.pc = IF obs.todo = {a} THEN "index" ELSE "deployments",
                              !.todo = obs.todo \ {a},
                              !.deployments = answers]
    BY <1>2, <2>1
  <2>3. /\ obs.pc = "deployments" /\ obs.status = "observed"
        /\ L \in Nat \ {0} /\ estate = past[L]
        /\ obs.todo \in SUBSET Accounts
        /\ obs.deployments \in Deployments
        /\ DOMAIN obs.deployments = (obs.resources \cap Accounts) \ obs.todo
        /\ obs.todo \subseteq obs.resources \cap Accounts
    BY PresentEstate DEF ListDeployments, ObserverInv, ObsTyped, Progress
  <2>4. /\ answers \in Deployments
        /\ DOMAIN answers = (obs.resources \cap Accounts) \ (obs.todo \ {a})
        /\ answers[a] = (a \in past[L].deployed)
        /\ \A b \in DOMAIN answers \ {a} : b \in DOMAIN obs.deployments /\ answers[b] = obs.deployments[b]
    <3>1. PICK S \in SUBSET Accounts : obs.deployments \in [S -> BOOLEAN]
      <4>1. PICK F \in {[S -> BOOLEAN] : S \in SUBSET Accounts} : obs.deployments \in F
        BY <2>3, Zenon DEF Deployments
      <4>2. PICK S \in SUBSET Accounts : F = [S -> BOOLEAN]
        BY <4>1
      <4> QED BY <4>1, <4>2
    <3>2. DOMAIN obs.deployments = S /\ S \cup {a} \in SUBSET Accounts
      BY <2>3, <3>1
    <3> DEFINE given(b) == IF b = a THEN a \in estate.deployed ELSE obs.deployments[b]
    <3>3. \A b \in S \cup {a} : given(b) \in BOOLEAN
      <4>1. \A b \in S : obs.deployments[b] \in BOOLEAN
        BY <3>1
      <4>2. (a \in estate.deployed) \in BOOLEAN
        OBVIOUS
      <4> QED BY <4>1, <4>2, Zenon
    <3> HIDE DEF given
    <3>4. [b \in S \cup {a} |-> given(b)] \in [S \cup {a} -> BOOLEAN]
      BY <3>3
    <3>5. answers = [b \in S \cup {a} |-> given(b)]
      BY <3>2 DEF given
    <3>6. answers \in Deployments
      BY <3>2, <3>4, <3>5, Zenon DEF Deployments
    <3> QED BY <2>3, <3>2, <3>6
  <2> HIDE DEF answers
  <2>5. ObsTyped'
    BY <2>2, <2>3, <2>4 DEF ObserverInv, ObsTyped, Read
  <2>6. /\ obs'.from = obs.from
        /\ obs'.head = obs.head /\ obs'.clean = obs.clean
        /\ obs'.status = obs.status
        /\ obs'.resources = obs.resources
        /\ obs'.todo = obs.todo \ {a}
        /\ obs'.deployments = answers
        /\ obs'.pc = IF obs.todo = {a} THEN "index" ELSE "deployments"
    BY <2>2 DEF ObserverInv, ObsTyped
  <2>7. Progress'
    BY <2>3, <2>4, <2>6 DEF Progress
  <2>8. PICK i, j, k, l, m, n \in Nat \ {0} : TrueAt(i, j, k, l, m, n)
    BY <2>3 DEF ObserverInv, ReadTruly, Read
  <2>9. /\ Ordered(i, j, k, l, m, n)
         /\ past[i].head = obs.head /\ Clean(past[j]) = obs.clean
         /\ past[k].profile = "allowed"
         /\ past[l].group /\ past[l].access
         /\ past[m].resources = obs.resources
         /\ \A b \in DOMAIN obs.deployments : \E p \in m..n :
              b \in past[p].resources /\ obs.deployments[b] = (b \in past[p].deployed)
    BY <2>3, <2>8 DEF TrueAt, Read
  <2>10. /\ Ordered(i, j, k, l, m, L) /\ m <= L
         /\ \A p \in m..n : p \in m..L
    BY <2>3, <2>9 DEF Ordered
  <2>11. \A b \in DOMAIN obs.deployments : \E p \in m..L :
              b \in past[p].resources /\ obs.deployments[b] = (b \in past[p].deployed)
    BY <2>9, <2>10
  <2>12. ASSUME NEW b \in DOMAIN answers
        PROVE  \E p \in m..L : b \in past[p].resources /\ answers[b] = (b \in past[p].deployed)
    <3>1. CASE b = a
      BY <2>2, <2>3, <2>4, <2>10, <3>1
    <3>2. CASE b # a
      BY <2>4, <2>11, <3>2
    <3> QED BY <3>1, <3>2
  <2>13. TrueAt(i, j, k, l, m, L)'
    <3>1. Ordered(i, j, k, l, m, L)' /\ Clean(past[j])' = obs'.clean
      BY <2>3, <2>6, <2>9, <2>10 DEF Ordered, Clean
    <3>2. /\ past'[i].head = obs'.head /\ past'[k].profile = "allowed"
          /\ past'[l].group /\ past'[l].access
          /\ past'[m].resources = obs'.resources
          /\ obs'.pc # "done" /\ obs'.status = "observed"
      BY <2>3, <2>6, <2>9
    <3>3. \A b \in DOMAIN obs'.deployments : \E p \in m..L :
            b \in past'[p].resources /\ obs'.deployments[b] = (b \in past'[p].deployed)
      BY <2>3, <2>6, <2>12, SMTT(30)
    <3> QED BY <3>1, <3>2, <3>3 DEF TrueAt
  <2>14. ReadTruly'
    BY <2>3, <2>13 DEF ReadTruly
  <2> QED BY <2>5, <2>7, <2>14 DEF ObserverInv
<1> QED BY <1>1, <1>2

LEMMA LoadStateIndexKeeps ==
  ASSUME HistoryOK, ObserverInv, LoadStateIndex, UNCHANGED past
  PROVE  ObserverInv'
<1> DEFINE L == Len(past)
<1>1. /\ obs.pc = "index" /\ obs' = [obs EXCEPT !.pc = "done", !.index = estate.index]
      /\ L \in Nat \ {0} /\ estate = past[L] /\ estate \in Estates
  BY PresentEstate DEF LoadStateIndex
<1>2. ObsTyped'
  BY <1>1 DEF ObserverInv, ObsTyped, Read, Estates
<1>3. /\ obs'.pc = "done" /\ obs'.index = past[L].index /\ obs'.from = obs.from
      /\ obs'.head = obs.head /\ obs'.clean = obs.clean
      /\ obs'.status = obs.status /\ obs'.resources = obs.resources
      /\ obs'.deployments = obs.deployments
  BY <1>1 DEF ObserverInv, ObsTyped
<1>4. Progress'
  BY <1>1, <1>3 DEF ObserverInv, Progress
<1>5. PICK i, j, k, l, m, n \in Nat \ {0} : TrueAt(i, j, k, l, m, n)
  BY <1>1 DEF ObserverInv, ReadTruly, Read
<1>6. TrueAt(i, j, k, l, m, L)'
  BY <1>1, <1>3, <1>5 DEF TrueAt, Ordered, Read, Clean
<1>7. ReadTruly'
  BY <1>1, <1>6 DEF ReadTruly
<1> QED BY <1>2, <1>4, <1>7 DEF ObserverInv

(* What was true of a moment stays true of it as the history goes on. *)
LEMMA HistoryKeepsReadings ==
  ASSUME HistoryOK, ObserverInv, GoesOn, UNCHANGED obs
  PROVE  ObserverInv'
<1>1. ObsTyped' /\ Progress'
  BY DEF ObserverInv, ObsTyped, Progress
<1>2. ASSUME NEW i \in Nat \ {0}, NEW j \in Nat \ {0}, NEW k \in Nat \ {0}, NEW l \in Nat \ {0},
             NEW m \in Nat \ {0}, NEW n \in Nat \ {0}, TrueAt(i, j, k, l, m, n)
      PROVE  TrueAt(i, j, k, l, m, n)'
  <2>1. /\ Len(past) \in Nat /\ Len(past') \in Nat /\ Len(past) <= Len(past')
        /\ \A h \in Nat \ {0} : h <= n => past'[h] = past[h]
    BY <1>2, PresentEstate DEF GoesOn, TrueAt, Ordered
  <2>2. \A p \in m..n : past'[p] = past[p]
    BY <2>1
  <2>3. /\ past'[i] = past[i] /\ past'[j] = past[j] /\ past'[k] = past[k]
        /\ past'[l] = past[l] /\ past'[m] = past[m] /\ past'[n] = past[n]
    <3>1. Ordered(i, j, k, l, m, n)
      BY <1>2 DEF TrueAt
    <3>2. i <= n /\ j <= n /\ k <= n /\ l <= n /\ m <= n
      BY <3>1 DEF Ordered
    <3>3. past'[i] = past[i] /\ past'[j] = past[j] /\ past'[k] = past[k]
      BY <2>1, <3>2
    <3>4. past'[l] = past[l] /\ past'[m] = past[m] /\ past'[n] = past[n]
      BY <2>1, <3>2
    <3> QED BY <3>3, <3>4
  <2>4. Ordered(i, j, k, l, m, n)'
    BY <1>2, <2>1 DEF TrueAt, Ordered
  <2>5. Clean(past[j])' = Clean(past[j])
    BY <2>3 DEF Clean
  <2>6. /\ (obs.pc \in Read => past[i].head = obs.head)'
        /\ (obs.pc \in Read \ {"status"} => Clean(past[j]) = obs.clean)'
        /\ (obs.pc \in Read \ {"status", "account"} => past[k].profile = "allowed")'
        /\ (obs.pc = "done" => past[n].index = obs.index)'
    BY <1>2, <2>3, <2>5 DEF TrueAt, Read
  <2>7. /\ (obs.status = "observed" => past[l].group /\ past[l].access)'
        /\ (obs.status = "not_present" => ~past[l].group \/ ~past[l].access)'
    BY <1>2, <2>3 DEF TrueAt
  <2>8. (obs.status = "observed" /\ obs.pc \in {"deployments", "index", "done"} =>
           /\ past[m].resources = obs.resources
           /\ \A a \in DOMAIN obs.deployments : \E p \in m..n :
                 a \in past[p].resources /\ obs.deployments[a] = (a \in past[p].deployed))'
    <3> SUFFICES ASSUME obs.status = "observed", obs.pc \in {"deployments", "index", "done"}
                 PROVE  /\ past'[m].resources = obs.resources
                        /\ \A a \in DOMAIN obs.deployments : \E p \in m..n :
                              /\ a \in past'[p].resources
                              /\ obs.deployments[a] = (a \in past'[p].deployed)
      OBVIOUS
    <3>1. /\ past[m].resources = obs.resources
          /\ \A a \in DOMAIN obs.deployments : \E p \in m..n :
                a \in past[p].resources /\ obs.deployments[a] = (a \in past[p].deployed)
      BY <1>2 DEF TrueAt
    <3> QED BY <2>2, <2>3, <3>1
  <2> QED BY <2>4, <2>6, <2>7, <2>8 DEF TrueAt
<1>3. ReadTruly'
  BY <1>2 DEF ObserverInv, ReadTruly
<1> QED BY <1>1, <1>3 DEF ObserverInv

LEMMA ObserveKeeps ==
  ASSUME HistoryOK, ObserverInv, Observe, UNCHANGED past
  PROVE  ObserverInv'
<1>1. CASE CommandFails
  BY <1>1, NothingRead DEF CommandFails
<1> QED BY <1>1, ConfigureKeeps, ReadHeadKeeps, ReadStatusKeeps, CheckAccountKeeps, ShowGroupKeeps,
           ListResourcesKeeps, ListDeploymentsKeeps, LoadStateIndexKeeps DEF Observe

(* What is returned, whole: the body of PartsWereTrueInOrder. *)
Whole(i, j, k, l, m, n) ==
  /\ i <= j /\ j <= k /\ k <= l /\ l <= m /\ m <= n
  /\ past[i].head = obs.head
  /\ Clean(past[j]) = obs.clean
  /\ past[k].profile = "allowed"
  /\ IF obs.status = "observed"
     THEN /\ past[l].group /\ past[l].access
          /\ past[m].resources = obs.resources
          /\ DOMAIN obs.deployments = obs.resources \cap Accounts
          /\ \A a \in DOMAIN obs.deployments : \E p \in m..n :
                /\ a \in past[p].resources
                /\ obs.deployments[a] = (a \in past[p].deployed)
     ELSE /\ ~past[l].group \/ ~past[l].access
          /\ obs.resources = {}
  /\ past[n].index = obs.index

LEMMA ReadingsWereTrue == ASSUME HistoryOK, ObserverInv PROVE PartsWereTrueInOrder
<1> SUFFICES ASSUME obs.pc = "done"
             PROVE  \E i, j, k, l, m, n \in obs.from .. Len(past) : Whole(i, j, k, l, m, n)
  BY Zenon DEF PartsWereTrueInOrder, Whole
<1>1. PICK i, j, k, l, m, n \in Nat \ {0} : TrueAt(i, j, k, l, m, n)
  BY DEF ObserverInv, ReadTruly, Read
<1>2. Len(past) \in Nat /\ obs.from \in Nat /\ obs.status \in {"observed", "not_present"}
  BY PresentEstate DEF ObserverInv, ObsTyped, Progress
<1>3. Ordered(i, j, k, l, m, n)
  BY <1>1 DEF TrueAt
<1>4. /\ i \in obs.from .. Len(past) /\ j \in obs.from .. Len(past) /\ k \in obs.from .. Len(past)
      /\ l \in obs.from .. Len(past) /\ m \in obs.from .. Len(past) /\ n \in obs.from .. Len(past)
      /\ i <= j /\ j <= k /\ k <= l /\ l <= m /\ m <= n
  BY <1>2, <1>3 DEF Ordered
<1>5. CASE obs.status = "observed"
  <2>1. DOMAIN obs.deployments = obs.resources \cap Accounts
    BY <1>5 DEF ObserverInv, Progress
  <2>2. Whole(i, j, k, l, m, n)
    BY <1>1, <1>4, <1>5, <2>1 DEF Whole, TrueAt, Read
  <2> QED BY <1>4, <2>2
<1>6. CASE obs.status = "not_present"
  <2>1. obs.resources = {}
    BY <1>6 DEF ObserverInv, Progress
  <2>2. Whole(i, j, k, l, m, n)
    BY <1>1, <1>4, <1>6, <2>1 DEF Whole, TrueAt, Read
  <2> QED BY <1>4, <2>2
<1> QED BY <1>2, <1>5, <1>6

-----------------------------------------------------------------------------
(* The clean-up assessment.  A directory belongs to the collection that    *)
(* made it, and its files hold what that collection had when it wrote      *)
(* them.                                                                   *)

Queried == {"deployments", "package"}
Writing == {"evidence", "assessment", "manifest"}

CollectionsTyped ==
  collection \in [Collections ->
    [pc : {"idle", "account", "query", "stopped"} \cup Queried \cup Writing,
     evidence : Evidence \cup {Nothing}]]

(* Evidence is of a moment of the history, and all of it unless cut off. *)
OfItsMoment(e) ==
  /\ e.at \in 1..Len(past)
  /\ e.rows \subseteq Rows(past[e.at])
  /\ ~e.cut => e.rows = Rows(past[e.at])

EvidenceOfItsMoment ==
  /\ \A c \in Collections : collection[c].pc \in Queried \cup Writing =>
        collection[c].evidence \in Evidence /\ OfItsMoment(collection[c].evidence)
  /\ directory.evidence # Nothing =>
        directory.evidence \in Evidence /\ OfItsMoment(directory.evidence)

(* Only one collection ever writes, and only into a directory of its own. *)
OneWriter ==
  \A c, d \in Collections :
    collection[c].pc \in Writing =>
      directory.there /\ (collection[d].pc \in Writing => c = d)

Package ==
  /\ directory = [there |-> directory.there, evidence |-> directory.evidence,
                  assessment |-> directory.assessment, manifest |-> directory.manifest]
  /\ directory.there \in BOOLEAN
  /\ ~directory.there => directory = NoDirectory
  /\ directory.assessment # Nothing =>
        /\ directory.evidence # Nothing
        /\ directory.assessment = Assess(directory.evidence.rows)
  /\ PackageWhole

WrittenBy(c) ==
  /\ collection[c].pc = "evidence" =>
       directory.assessment = Nothing /\ directory.manifest = Nothing
  /\ collection[c].pc = "assessment" =>
       directory.evidence = collection[c].evidence /\ directory.manifest = Nothing
  /\ collection[c].pc = "manifest" =>
       /\ directory.evidence = collection[c].evidence
       /\ directory.assessment = Assess(directory.evidence.rows)

FilesInOrder == Package /\ \A c \in Collections : WrittenBy(c)

CleanupInv == CollectionsTyped /\ EvidenceOfItsMoment /\ OneWriter /\ FilesInOrder

LEMMA RowsAreTyped ==
  ASSUME NEW w \in Estates, Consistent(w)
  PROVE  Rows(w) \subseteq AllRows
<1>1. w.resources \subseteq Resources /\ w.tags \subseteq Tags /\ w.attached \subseteq w.resources
  BY DEF Estates, Consistent
<1>2. [kind : {"candidate"}, of : w.resources \cap Candidates, to : {Nothing}] \subseteq AllRows
  BY <1>1 DEF AllRows
<1>3. [kind : {"public_ip_reference"}, of : w.attached, to : {Pip}] \subseteq AllRows
  BY <1>1 DEF AllRows
<1>4. ASSUME NEW t \in w.tags
      PROVE  [kind |-> "tag_reference", of |-> t[1], to |-> t[2]] \in AllRows
  BY <1>1, CleanupAssumption DEF AllRows
<1> QED BY <1>2, <1>3, <1>4 DEF Rows

(* What may be put forward, by the rows of one moment and no others. *)
LEMMA ClearedByItsRows ==
  ASSUME NEW w \in Estates, Consistent(w), NEW c \in Candidates,
         Assess(Rows(w))[c] = "requires_what_if_and_human_authorization"
  PROVE  /\ c \in w.resources
         /\ c \notin Historical
         /\ c = Pip => w.attached = {}
         /\ \A t \in w.tags : t[2] # c
<1>1. Matches(Rows(w), c) # {} /\ Blockers(Rows(w), c) = {}
  BY DEF Assess
<1>2. c \in w.resources
  <2>1. PICK r \in Rows(w) : r.of = c
    BY <1>1 DEF Matches
  <2>2. CASE r \in [kind : {"candidate"}, of : w.resources \cap Candidates, to : {Nothing}]
    BY <2>1, <2>2
  <2>3. CASE r \in [kind : {"public_ip_reference"}, of : w.attached, to : {Pip}]
    BY <2>1, <2>3 DEF Consistent
  <2>4. CASE \E t \in w.tags : r = [kind |-> "tag_reference", of |-> t[1], to |-> t[2]]
    BY <2>1, <2>4 DEF Consistent
  <2> QED BY <2>1, <2>2, <2>3, <2>4 DEF Rows
<1>3. c \notin Historical
  BY <1>1 DEF Blockers
<1>4. ASSUME c = Pip, NEW h \in w.attached PROVE FALSE
  <2> DEFINE r == [kind |-> "public_ip_reference", of |-> h, to |-> Pip]
  <2>1. r \in Rows(w) /\ r.kind = "public_ip_reference" /\ r.to = Pip
    BY <1>4 DEF Rows
  <2> QED BY <1>1, <1>4, <2>1 DEF Blockers
<1>5. ASSUME NEW t \in w.tags, t[2] = c PROVE FALSE
  <2> DEFINE r == [kind |-> "tag_reference", of |-> t[1], to |-> t[2]]
  <2>1. r \in Rows(w) /\ r.kind = "tag_reference" /\ r.to = c
    BY <1>5 DEF Rows
  <2> QED BY <1>1, <2>1 DEF Blockers
<1> QED BY <1>2, <1>3, <1>4, <1>5

LEMMA PackagesSayWhatWasSo ==
  ASSUME HistoryOK, CleanupInv
  PROVE  PackageWhole /\ ClearedWasFree
<1>1. PackageWhole
  BY DEF CleanupInv, FilesInOrder, Package
<1>2. ASSUME directory.assessment # Nothing, NEW c \in Candidates,
             directory.assessment[c] = "requires_what_if_and_human_authorization",
             ~directory.evidence.cut
      PROVE  LET w == past[directory.evidence.at]
             IN  /\ c \in w.resources
                 /\ c \notin Historical
                 /\ c = Pip => w.attached = {}
                 /\ \A t \in w.tags : t[2] # c
  <2> DEFINE w == past[directory.evidence.at]
  <2>1. /\ directory.assessment = Assess(directory.evidence.rows)
        /\ directory.evidence.rows = Rows(w)
        /\ directory.evidence.at \in 1..Len(past)
    BY <1>2 DEF CleanupInv, FilesInOrder, Package, EvidenceOfItsMoment, OfItsMoment
  <2>2. w \in Estates /\ Consistent(w)
    BY <2>1 DEF HistoryOK
  <2>3. Assess(Rows(w))[c] = "requires_what_if_and_human_authorization"
    BY <1>2, <2>1
  <2> HIDE DEF w
  <2> QED BY <2>2, <2>3, ClearedByItsRows DEF w
<1> QED BY <1>1, <1>2 DEF ClearedWasFree

LEMMA HistoryKeepsEvidence ==
  ASSUME HistoryOK, CleanupInv, GoesOn, UNCHANGED <<collection, directory>>
  PROVE  CleanupInv'
<1>1. ASSUME NEW e \in Evidence, OfItsMoment(e) PROVE OfItsMoment(e)'
  <2>1. e.at \in 1..Len(past') /\ past'[e.at] = past[e.at]
    BY <1>1, PresentEstate, LenProperties DEF OfItsMoment, GoesOn
  <2>2. Rows(past[e.at])' = Rows(past[e.at])
    BY <2>1 DEF Rows
  <2> QED BY <1>1, <2>1, <2>2 DEF OfItsMoment
<1>2. EvidenceOfItsMoment'
  <2>1. ASSUME NEW c \in Collections, collection[c].pc \in Queried \cup Writing
        PROVE  collection[c].evidence \in Evidence /\ OfItsMoment(collection[c].evidence)'
    <3> PICK e \in Evidence : e = collection[c].evidence /\ OfItsMoment(e)
      BY <2>1 DEF CleanupInv, EvidenceOfItsMoment
    <3> QED BY <1>1 DEF OfItsMoment
  <2>2. ASSUME directory.evidence # Nothing
        PROVE  directory.evidence \in Evidence /\ OfItsMoment(directory.evidence)'
    <3> PICK e \in Evidence : e = directory.evidence /\ OfItsMoment(e)
      BY <2>2 DEF CleanupInv, EvidenceOfItsMoment
    <3> QED BY <1>1 DEF OfItsMoment
  <2> QED BY <2>1, <2>2 DEF EvidenceOfItsMoment
<1>3. CollectionsTyped' /\ OneWriter'
  BY DEF CleanupInv, CollectionsTyped, OneWriter
<1>4. FilesInOrder'
  <2>1. Package' 
    BY DEF CleanupInv, FilesInOrder, Package, PackageWhole
  <2>2. ASSUME NEW c \in Collections PROVE WrittenBy(c)'
    BY DEF CleanupInv, FilesInOrder, WrittenBy
  <2> QED BY <2>1, <2>2 DEF FilesInOrder
<1> QED BY <1>2, <1>3, <1>4 DEF CleanupInv

(* A collection that goes on without writing, or stops: whatever is in the *)
(* directory stays as it is.                                               *)
LEMMA GoingOnKeeps ==
  ASSUME CleanupInv, NEW c \in Collections, UNCHANGED <<past, directory>>,
         NEW pc \in {"account", "query", "stopped"} \cup Queried, NEW e,
         collection' = [collection EXCEPT ![c] = [pc |-> pc, evidence |-> e]],
         e \in Evidence \cup {Nothing},
         pc \in Queried => e \in Evidence /\ OfItsMoment(e)
  PROVE  CleanupInv'
<1> USE DEF CleanupInv
<1>1. CollectionsTyped'
  BY DEF CollectionsTyped, Queried, Writing
<1>2. /\ collection'[c].pc = pc /\ collection'[c].evidence = e /\ pc \notin Writing
      /\ \A d \in Collections \ {c} : collection'[d] = collection[d]
  BY DEF CollectionsTyped, Queried, Writing
<1>3. OfItsMoment(e)' <=> OfItsMoment(e)
  BY DEF OfItsMoment, Rows
<1>4. EvidenceOfItsMoment'
  <2>1. ASSUME NEW d \in Collections, collection'[d].pc \in Queried \cup Writing
        PROVE  (collection[d].evidence \in Evidence /\ OfItsMoment(collection[d].evidence))'
    <3>1. CASE d = c
      BY <1>2, <1>3, <2>1, <3>1 DEF OfItsMoment
    <3>2. CASE d # c
      BY <1>2, <2>1, <3>2 DEF EvidenceOfItsMoment, OfItsMoment
    <3> QED BY <3>1, <3>2
  <2>2. (directory.evidence # Nothing =>
           directory.evidence \in Evidence /\ OfItsMoment(directory.evidence))'
    BY DEF EvidenceOfItsMoment, OfItsMoment
  <2> QED BY <2>1, <2>2 DEF EvidenceOfItsMoment
<1>5. OneWriter'
  BY <1>2 DEF OneWriter
<1>6. FilesInOrder'
  <2>1. ASSUME NEW d \in Collections, collection'[d].pc \in Writing
        PROVE  collection'[d] = collection[d]
    BY <1>2, <2>1
  <2>2. Package'
    BY DEF FilesInOrder, Package, PackageWhole
  <2>3. ASSUME NEW d \in Collections PROVE WrittenBy(d)'
    <3>1. CASE collection'[d].pc \in Writing
      BY <2>1, <3>1 DEF FilesInOrder, WrittenBy
    <3>2. CASE collection'[d].pc \notin Writing
      BY <3>2 DEF WrittenBy, Writing
    <3> QED BY <3>1, <3>2
  <2> QED BY <2>2, <2>3 DEF FilesInOrder
<1> QED BY <1>1, <1>4, <1>5, <1>6

LEMMA GotoKeeps ==
  ASSUME CleanupInv, NEW c \in Collections, UNCHANGED <<past, directory>>,
         NEW pc \in {"account", "query", "stopped"} \cup Queried, Goto(c, pc),
         pc \in Queried => collection[c].pc \in Queried
  PROVE  CleanupInv'
<1>1. PICK e : e = collection[c].evidence
  OBVIOUS
<1>2. /\ e \in Evidence \cup {Nothing}
      /\ [collection[c] EXCEPT !.pc = pc] = [pc |-> pc, evidence |-> e]
  BY <1>1 DEF CleanupInv, CollectionsTyped
<1>3. collection' = [collection EXCEPT ![c] = [pc |-> pc, evidence |-> e]]
  BY <1>2 DEF Goto
<1>4. pc \in Queried => e \in Evidence /\ OfItsMoment(e)
  BY <1>1 DEF CleanupInv, EvidenceOfItsMoment, OfItsMoment
<1> QED BY <1>2, <1>3, <1>4, GoingOnKeeps

LEMMA CollectingKeeps ==
  ASSUME HistoryOK, CleanupInv, NEW c \in Collections, UNCHANGED past,
         \/ ValidateContract(c) \/ CheckSession(c) \/ CollectionFails(c) \/ QueryGraph(c)
         \/ ListDeploymentHistory(c) \/ Interrupted(c)
         \/ MakeDirectory(c) /\ directory.there
  PROVE  CleanupInv'
<1>1. CASE ValidateContract(c)
  BY <1>1, GotoKeeps DEF ValidateContract, Queried
<1>2. CASE CheckSession(c)
  BY <1>2, GotoKeeps DEF CheckSession, Queried
<1>3. CASE CollectionFails(c)
  BY <1>3, GoingOnKeeps DEF CollectionFails, Stopped, Queried
<1>4. CASE QueryGraph(c)
  <2>1. PICK rows \in Answered(estate) :
          collection' = [collection EXCEPT ![c] =
            [pc |-> "deployments",
             evidence |-> [rows |-> rows,
                           cut |-> rows # Rows(estate),
                           query_complete |-> TRUE,
                           at |-> Len(past)]]]
    BY <1>4 DEF QueryGraph
  <2> DEFINE e == [rows |-> rows, cut |-> rows # Rows(estate),
                   query_complete |-> TRUE, at |-> Len(past)]
  <2>2. rows \subseteq Rows(estate)
    BY DEF Answered
  <2>3. rows \subseteq AllRows /\ Len(past) \in 1..Len(past) /\ estate = past[Len(past)]
    BY <2>2, PresentEstate, RowsAreTyped
  <2>4. e \in Evidence
    BY <2>3 DEF Evidence
  <2>5. OfItsMoment(e)
    BY <2>2, <2>3 DEF OfItsMoment
  <2> HIDE DEF e
  <2>6. collection' = [collection EXCEPT ![c] = [pc |-> "deployments", evidence |-> e]]
    BY <2>1 DEF e
  <2> QED BY <1>4, <2>4, <2>5, <2>6, GoingOnKeeps DEF QueryGraph, Queried
<1>5. CASE ListDeploymentHistory(c)
  BY <1>5, GotoKeeps DEF ListDeploymentHistory, Queried
<1>6. CASE Interrupted(c)
  BY <1>6, GoingOnKeeps DEF Interrupted, Stopped, Queried
<1>7. CASE MakeDirectory(c) /\ directory.there
  BY <1>7, GoingOnKeeps DEF MakeDirectory, Stopped, Queried
<1> QED BY <1>1, <1>2, <1>3, <1>4, <1>5, <1>6, <1>7

(* A step of the writer: only its own state and the files change, and what *)
(* is not the writer's keeps its place.                                    *)
LEMMA WritingKeeps ==
  ASSUME CleanupInv, NEW c \in Collections, UNCHANGED past,
         NEW pc \in {"stopped"} \cup Writing, NEW e \in Evidence \cup {Nothing},
         collection' = [collection EXCEPT ![c] = [pc |-> pc, evidence |-> e]],
         pc \in Writing => e \in Evidence /\ OfItsMoment(e),
         \A d \in Collections \ {c} : collection[d].pc \notin Writing,
         directory'.there, Package', WrittenBy(c)',
         \/ directory'.evidence = directory.evidence
         \/ directory'.evidence \in Evidence /\ OfItsMoment(directory'.evidence)
  PROVE  CleanupInv'
<1> USE DEF CleanupInv
<1>1. CollectionsTyped'
  BY DEF CollectionsTyped, Queried, Writing
<1>2. /\ collection'[c].pc = pc /\ collection'[c].evidence = e
      /\ \A d \in Collections \ {c} : collection'[d] = collection[d]
      /\ pc \notin Queried
  BY DEF CollectionsTyped, Queried, Writing
<1>3. EvidenceOfItsMoment'
  <2>1. ASSUME NEW d \in Collections, collection'[d].pc \in Queried \cup Writing
        PROVE  (collection[d].evidence \in Evidence /\ OfItsMoment(collection[d].evidence))'
    <3>1. CASE d = c
      BY <1>2, <2>1, <3>1 DEF OfItsMoment
    <3>2. CASE d # c
      BY <1>2, <2>1, <3>2 DEF EvidenceOfItsMoment, OfItsMoment
    <3> QED BY <3>1, <3>2
  <2>2. (directory.evidence # Nothing =>
           directory.evidence \in Evidence /\ OfItsMoment(directory.evidence))'
    BY DEF EvidenceOfItsMoment, OfItsMoment
  <2> QED BY <2>1, <2>2 DEF EvidenceOfItsMoment
<1>4. OneWriter'
  BY <1>2 DEF OneWriter
<1>5. FilesInOrder'
  <2>1. ASSUME NEW d \in Collections, d # c PROVE WrittenBy(d)'
    BY <1>2, <2>1 DEF WrittenBy, Writing
  <2> QED BY <2>1 DEF FilesInOrder
<1> QED BY <1>1, <1>3, <1>4, <1>5

LEMMA MakeDirectoryKeeps ==
  ASSUME CleanupInv, NEW c \in Collections, UNCHANGED past,
         MakeDirectory(c), ~directory.there
  PROVE  CleanupInv'
<1>1. PICK e : e = collection[c].evidence
  OBVIOUS
<1>2. /\ e \in Evidence /\ OfItsMoment(e)
      /\ [collection[c] EXCEPT !.pc = "evidence"] = [pc |-> "evidence", evidence |-> e]
  BY <1>1 DEF CleanupInv, CollectionsTyped, EvidenceOfItsMoment, OfItsMoment, MakeDirectory, Queried
<1>3. /\ collection' = [collection EXCEPT ![c] = [pc |-> "evidence", evidence |-> e]]
      /\ directory' = [NoDirectory EXCEPT !.there = TRUE]
  BY <1>2 DEF MakeDirectory, Goto, CleanupInv, FilesInOrder, Package
<1>4. directory' = [there |-> TRUE, evidence |-> Nothing, assessment |-> Nothing, manifest |-> Nothing]
  BY <1>3 DEF NoDirectory
<1>5. Package'
  BY <1>4 DEF Package, PackageWhole
<1>6. WrittenBy(c)'
  BY <1>3, <1>4 DEF WrittenBy, CleanupInv, CollectionsTyped
<1>7. \A d \in Collections \ {c} : collection[d].pc \notin Writing
  BY DEF CleanupInv, OneWriter
<1>8. directory'.evidence = directory.evidence
  BY <1>4 DEF CleanupInv, FilesInOrder, Package, NoDirectory
<1>9. directory'.there /\ "evidence" \in Writing
  BY <1>4 DEF Writing
<1> QED BY <1>2, <1>3, <1>5, <1>6, <1>7, <1>8, <1>9, WritingKeeps

LEMMA WriteEvidenceKeeps ==
  ASSUME CleanupInv, NEW c \in Collections, UNCHANGED past, WriteEvidence(c)
  PROVE  CleanupInv'
<1>1. PICK e : e = collection[c].evidence
  OBVIOUS
<1>2. /\ e \in Evidence /\ OfItsMoment(e)
      /\ [collection[c] EXCEPT !.pc = "assessment"] = [pc |-> "assessment", evidence |-> e]
  BY <1>1 DEF CleanupInv, CollectionsTyped, EvidenceOfItsMoment, OfItsMoment, WriteEvidence, Writing
<1>3. collection' = [collection EXCEPT ![c] = [pc |-> "assessment", evidence |-> e]]
  BY <1>2 DEF WriteEvidence, Goto
<1>4. directory.there /\ directory.assessment = Nothing /\ directory.manifest = Nothing
  BY DEF CleanupInv, OneWriter, FilesInOrder, WrittenBy, WriteEvidence, Writing
<1>5. directory' = [there |-> TRUE, evidence |-> e, assessment |-> Nothing, manifest |-> Nothing]
  BY <1>1, <1>4 DEF WriteEvidence, CleanupInv, FilesInOrder, Package
<1>6. Package'
  BY <1>5 DEF Package, PackageWhole
<1>7. WrittenBy(c)'
  BY <1>3, <1>5 DEF WrittenBy, CleanupInv, CollectionsTyped
<1>8. \A d \in Collections \ {c} : collection[d].pc \notin Writing
  BY DEF CleanupInv, OneWriter, WriteEvidence, Writing
<1>9. directory'.evidence \in Evidence /\ OfItsMoment(directory'.evidence)
  BY <1>2, <1>5 DEF OfItsMoment
<1> QED BY <1>2, <1>3, <1>5, <1>6, <1>7, <1>8, <1>9, WritingKeeps DEF Writing

LEMMA WriteAssessmentKeeps ==
  ASSUME CleanupInv, NEW c \in Collections, UNCHANGED past, WriteAssessment(c)
  PROVE  CleanupInv'
<1>1. PICK e : e = collection[c].evidence
  OBVIOUS
<1>2. /\ e \in Evidence /\ OfItsMoment(e)
      /\ [collection[c] EXCEPT !.pc = "manifest"] = [pc |-> "manifest", evidence |-> e]
  BY <1>1 DEF CleanupInv, CollectionsTyped, EvidenceOfItsMoment, OfItsMoment, WriteAssessment,
              Writing
<1>3. collection' = [collection EXCEPT ![c] = [pc |-> "manifest", evidence |-> e]]
  BY <1>2 DEF WriteAssessment, Goto
<1>4. directory.there /\ directory.evidence = e /\ directory.manifest = Nothing
  BY <1>1 DEF CleanupInv, OneWriter, FilesInOrder, WrittenBy, WriteAssessment, Writing
<1>5. directory' = [there |-> TRUE, evidence |-> e, assessment |-> Assess(e.rows), manifest |-> Nothing]
  BY <1>1, <1>4 DEF WriteAssessment, CleanupInv, FilesInOrder, Package
<1>6. e # Nothing
  BY <1>2, CleanupAssumption
<1>7. Package'
  BY <1>5, <1>6 DEF Package, PackageWhole
<1>8. WrittenBy(c)'
  BY <1>3, <1>5 DEF WrittenBy, CleanupInv, CollectionsTyped
<1>9. \A d \in Collections \ {c} : collection[d].pc \notin Writing
  BY DEF CleanupInv, OneWriter, WriteAssessment, Writing
<1>10. directory'.evidence = directory.evidence
  BY <1>4, <1>5
<1> QED BY <1>2, <1>3, <1>5, <1>7, <1>8, <1>9, <1>10, WritingKeeps DEF Writing

LEMMA WriteManifestKeeps ==
  ASSUME CleanupInv, NEW c \in Collections, UNCHANGED past, WriteManifest(c)
  PROVE  CleanupInv'
<1>1. collection' = [collection EXCEPT ![c] = [pc |-> "stopped", evidence |-> Nothing]]
  BY DEF WriteManifest, Stopped
<1>2. PICK e : e = directory.evidence
  OBVIOUS
<1>3. /\ e \in Evidence /\ e # Nothing /\ directory.there
      /\ directory.assessment = Assess(e.rows)
  BY <1>2, CleanupAssumption
  DEF CleanupInv, EvidenceOfItsMoment, OneWriter, FilesInOrder, WrittenBy, WriteManifest, Writing
<1>4. directory' = [there |-> TRUE, evidence |-> e, assessment |-> Assess(e.rows),
                    manifest |-> [evidence |-> e, assessment |-> Assess(e.rows)]]
  BY <1>2, <1>3 DEF WriteManifest, CleanupInv, FilesInOrder, Package
<1>5. Package'
  BY <1>3, <1>4 DEF Package, PackageWhole
<1>6. WrittenBy(c)'
  BY <1>1 DEF WrittenBy, CleanupInv, CollectionsTyped
<1>7. \A d \in Collections \ {c} : collection[d].pc \notin Writing
  BY DEF CleanupInv, OneWriter, WriteManifest, Writing
<1>8. directory'.evidence = directory.evidence
  BY <1>2, <1>4
<1>9. directory'.there /\ "stopped" \notin Writing /\ Nothing \in Evidence \cup {Nothing}
  BY <1>4 DEF Writing
<1> QED BY <1>1, <1>5, <1>6, <1>7, <1>8, <1>9, WritingKeeps

LEMMA CollectKeeps ==
  ASSUME HistoryOK, CleanupInv, NEW c \in Collections, Collect(c), UNCHANGED past
  PROVE  CleanupInv'
<1>1. directory.there \in BOOLEAN
  BY DEF CleanupInv, FilesInOrder, Package
<1> QED BY <1>1, CollectingKeeps, MakeDirectoryKeeps, WriteEvidenceKeeps, WriteAssessmentKeeps,
           WriteManifestKeeps DEF Collect

-----------------------------------------------------------------------------
(* The two observers of one estate. *)

ObservationInv == HistoryOK /\ ObserverInv /\ CleanupInv

LEMMA ObservationStarts == Init => ObservationInv
<1> SUFFICES ASSUME Init PROVE ObservationInv
  OBVIOUS
<1>1. PICK w \in InitialEstates : past = <<w>>
  BY DEF Init, EstateInit
<1>2. HistoryOK
  BY <1>1, AzureEstateAssumption DEF HistoryOK
<1>3. ObserverInv
  BY NothingRead DEF Init, ObserverInit
<1>4. /\ directory = [there |-> FALSE, evidence |-> Nothing,
                      assessment |-> Nothing, manifest |-> Nothing]
      /\ \A c \in Collections : collection[c] = [pc |-> "idle", evidence |-> Nothing]
      /\ collection \in [Collections -> {[pc |-> "idle", evidence |-> Nothing]}]
  BY DEF Init, CleanupInit, NotStarted, NoDirectory
<1>5. CollectionsTyped /\ EvidenceOfItsMoment /\ OneWriter
  BY <1>4 DEF CollectionsTyped, EvidenceOfItsMoment, OneWriter, Queried, Writing
<1>6. Package
  BY <1>4 DEF Package, PackageWhole, NoDirectory
<1>7. \A c \in Collections : WrittenBy(c)
  BY <1>4 DEF WrittenBy
<1> QED BY <1>2, <1>3, <1>5, <1>6, <1>7 DEF ObservationInv, CleanupInv, FilesInOrder

LEMMA ObservationSteps == ObservationInv /\ [Next]_azureVars => ObservationInv'
<1> SUFFICES ASSUME ObservationInv, [Next]_azureVars PROVE ObservationInv'
  OBVIOUS
<1> USE DEF ObservationInv
<1>1. ASSUME UNCHANGED past PROVE HistoryOK' /\ GoesOn
  BY <1>1, PresentEstate DEF HistoryOK, GoesOn, Consistent
<1>2. CASE Change /\ UNCHANGED <<obs, collection, directory>>
  BY <1>2, ChangeGoesOn, HistoryKeepsReadings, HistoryKeepsEvidence
<1>3. CASE Observe /\ UNCHANGED <<past, collection, directory>>
  BY <1>1, <1>3, ObserveKeeps, HistoryKeepsEvidence
<1>4. CASE \E c \in Collections : Collect(c) /\ UNCHANGED <<past, obs>>
  BY <1>1, <1>4, CollectKeeps, HistoryKeepsReadings
<1>5. CASE UNCHANGED azureVars
  BY <1>1, <1>5, HistoryKeepsReadings, HistoryKeepsEvidence DEF azureVars
<1> QED BY <1>2, <1>3, <1>4, <1>5 DEF Next

THEOREM ObservationInvariant == Spec => []ObservationInv
<1> QED BY ObservationStarts, ObservationSteps, PTL DEF Spec

(* An observation that is returned was true part by part and in the order  *)
(* it was read, for every estate and every history of it.                  *)
THEOREM ObservedInOrder == Spec => []PartsWereTrueInOrder
<1>1. ObservationInv => PartsWereTrueInOrder
  BY ReadingsWereTrue DEF ObservationInv
<1> QED BY <1>1, ObservationInvariant, PTL

(* A package with a manifest is of one collection and whole, however many  *)
(* collections are given the directory.                                    *)
THEOREM PackagesAreWhole == Spec => []PackageWhole
<1>1. ObservationInv => PackageWhole
  BY PackagesSayWhatWasSo DEF ObservationInv
<1> QED BY <1>1, ObservationInvariant, PTL

(* A candidate that is put forward was free when the graph was queried, if *)
(* the answer was not cut off.                                             *)
THEOREM ClearedCandidatesWereFree == Spec => []ClearedWasFree
<1>1. ObservationInv => ClearedWasFree
  BY PackagesSayWhatWasSo DEF ObservationInv
<1> QED BY <1>1, ObservationInvariant, PTL

-----------------------------------------------------------------------------
(* The evaluation of attestations.  What evaluate returns is what is       *)
(* declared of it, for every topology and every set of observations: the   *)
(* states of the nodes are, after every iteration, a function of what has  *)
(* been gone through so far, and not of the order in which it was.         *)

(* What has tainted a node in the iterations made so far. *)
TaintedSoFar(n) ==
  \/ \E b \in Nodes : Broken(b) /\ b \notin nodesLeft /\ n \in Descendants(b) \ {b}
  \/ \E e \in Edges : /\ EdgeState(e) # "VALID" /\ e \notin edgesLeft
                      /\ n \in Descendants(To[e])

StateSoFar(n) ==
  IF Broken(n) /\ n \notin nodesLeft THEN NodeObservations[n]
  ELSE IF TaintedSoFar(n) THEN "POISONED" ELSE "VALID"

AttestationInv ==
  /\ AttestationTypeOK
  /\ \A n \in Nodes : node_states[n] = StateSoFar(n)
  /\ outcome = "returned" => nodesLeft = {} /\ edgesLeft = {}

(* A node is among its own descendants, and what an edge leads to from a   *)
(* descendant is a descendant (_descendants).                              *)
LEMMA DescendantsClosed ==
  ASSUME WellFormed, NEW start \in Nodes
  PROVE  /\ start \in Descendants(start)
         /\ \A e \in Edges : From[e] \in Descendants(start) => To[e] \in Descendants(start)
<1>1. start \in Descendants(start)
  BY DEF Descendants
<1>2. ASSUME NEW e \in Edges, From[e] \in Descendants(start)
      PROVE  To[e] \in Descendants(start)
  <2>1. To[e] \in Nodes
    BY DEF WellFormed
  <2>2. ASSUME NEW S \in SUBSET Nodes, start \in S, Closed(S)
        PROVE  To[e] \in S
    <3>1. From[e] \in S
      BY <1>2, <2>2 DEF Descendants
    <3> QED BY <3>1, <2>2 DEF Closed
  <2> QED BY <2>1, <2>2 DEF Descendants
<1> QED BY <1>1, <1>2

(* The adapter gives every record one of the three verdicts, and VALID     *)
(* only to a fresh and satisfied one.                                      *)
LEMMA AttestedVerdicts ==
  ASSUME WellFormed, NEW s \in DOMAIN Classifications
  PROVE  /\ NodeObservations[s] \in States
         /\ NodeObservations[s] = "VALID" =>
              /\ Classifications[s].outcome = "SATISFIED"
              /\ Classifications[s].observed_at <= EvaluationTime
              /\ EvaluationTime <= Classifications[s].observed_at + MaxAge
<1> DEFINE r == Classifications[s]
<1>1. NodeObservations[s] = Attested(r)
  BY DEF NodeObservations
<1>2. r.outcome \in Outcomes /\ r.observed_at \in Nat /\ EvaluationTime \in Nat /\ MaxAge \in Nat
  BY DEF WellFormed
<1> HIDE DEF r
<1>3. /\ Attested(r) \in States
      /\ Attested(r) = "VALID" =>
              /\ r.outcome = "SATISFIED"
              /\ r.observed_at <= EvaluationTime
              /\ EvaluationTime <= r.observed_at + MaxAge
  BY <1>2 DEF Attested, States, Outcomes
<1> QED BY <1>1, <1>3 DEF r

LEMMA AttestationStarts == ASSUME WellFormed PROVE AttestationInit => AttestationInv
<1> SUFFICES ASSUME AttestationInit PROVE AttestationInv OBVIOUS
<1>1. AttestationTypeOK
  BY DEF AttestationInit, AttestationTypeOK, NodeStates, States
<1>2. ASSUME NEW n \in Nodes PROVE node_states[n] = StateSoFar(n)
  <2>1. \A b \in Nodes : Broken(b) => b \in nodesLeft
    BY DEF AttestationInit, Broken
  <2>2. ~TaintedSoFar(n)
    BY <2>1 DEF TaintedSoFar, AttestationInit
  <2> QED BY <2>1, <2>2 DEF StateSoFar, AttestationInit
<1> QED BY <1>1, <1>2 DEF AttestationInv, AttestationInit

(* Going through a node observation: the node takes what was observed of   *)
(* it, and what else depends on it is poisoned.                            *)
LEMMA ApplyNodeKeeps ==
  ASSUME WellFormed, AttestationInv, NEW s \in nodesLeft, ApplyNode(s)
  PROVE  AttestationInv'
<1> USE DEF AttestationInv, AttestationTypeOK
<1>1. CASE s \notin Nodes
  <2>1. /\ outcome' = "raised"
        /\ UNCHANGED <<nodesLeft, edgesLeft, node_states, candidate_actions>>
    BY <1>1 DEF ApplyNode
  <2>2. \A n \in Nodes : StateSoFar(n)' = StateSoFar(n)
    BY <2>1 DEF StateSoFar, TaintedSoFar
  <2> QED BY <2>1, <2>2
<1>2. CASE s \in Nodes
  <2>1. /\ outcome' = outcome /\ outcome = "running"
        /\ nodesLeft' = nodesLeft \ {s}
        /\ edgesLeft' = edgesLeft /\ candidate_actions' = candidate_actions
        /\ node_states' =
               IF NodeObservations[s] = "VALID" THEN node_states
               ELSE Poison(Descendants(s) \ {s},
                           [node_states EXCEPT ![s] = NodeObservations[s]])
    BY <1>2 DEF ApplyNode
  <2>2. s \in DOMAIN NodeObservations /\ s \in DOMAIN Classifications
    BY DEF NodeObservations
  <2>3. NodeObservations[s] \in States
    BY <2>2, AttestedVerdicts
  <2>4. CASE NodeObservations[s] = "VALID"
    <3>1. node_states' = node_states /\ ~Broken(s)
      BY <2>1, <2>4 DEF Broken
    <3>2. \A n \in Nodes : TaintedSoFar(n)' <=> TaintedSoFar(n)
      BY <2>1, <3>1 DEF TaintedSoFar, Broken
    <3>3. \A n \in Nodes : StateSoFar(n)' = StateSoFar(n)
      BY <2>1, <3>1, <3>2 DEF StateSoFar, Broken
    <3> QED BY <2>1, <3>1, <3>3
  <2>5. CASE NodeObservations[s] # "VALID"
    <3> DEFINE marked == [node_states EXCEPT ![s] = NodeObservations[s]]
    <3>1. Broken(s)
      BY <2>2, <2>5 DEF Broken
    <3>2. marked \in [Nodes -> NodeStates]
      BY <2>3 DEF NodeStates
    <3>3. node_states' = Poison(Descendants(s) \ {s}, marked)
      BY <2>1, <2>5
    <3>4. node_states' \in [Nodes -> NodeStates]
      BY <3>2, <3>3 DEF Poison, NodeStates
    <3>5. ASSUME NEW n \in Nodes PROVE node_states'[n] = StateSoFar(n)'
      <4>1. node_states'[n] = IF n \in Descendants(s) \ {s} /\ marked[n] = "VALID"
                              THEN "POISONED" ELSE marked[n]
        BY <3>3 DEF Poison
      <4>2. TaintedSoFar(n)' <=> TaintedSoFar(n) \/ n \in Descendants(s) \ {s}
        BY <1>2, <2>1, <3>1 DEF TaintedSoFar, Broken
      <4>3. CASE n = s
        <5>1. node_states'[n] = NodeObservations[s]
          BY <1>2, <4>1, <4>3
        <5>2. StateSoFar(n)' = NodeObservations[s]
          BY <2>1, <3>1, <4>3 DEF StateSoFar, Broken
        <5> QED BY <5>1, <5>2
      <4>4. CASE n # s
        <5>1. marked[n] = StateSoFar(n)
          BY <4>4
        <5>2. (n \notin nodesLeft') <=> (n \notin nodesLeft)
          BY <2>1, <4>4
        <5>3. Broken(n)' <=> Broken(n)
          BY DEF Broken
        <5>4. CASE Broken(n) /\ n \notin nodesLeft
          <6>1. StateSoFar(n)' = NodeObservations[n] /\ StateSoFar(n) = NodeObservations[n]
            BY <5>2, <5>3, <5>4 DEF StateSoFar
          <6>2. NodeObservations[n] # "VALID"
            BY <5>4 DEF Broken
          <6> QED BY <4>1, <5>1, <6>1, <6>2
        <5>5. CASE ~(Broken(n) /\ n \notin nodesLeft)
          <6>1. /\ StateSoFar(n)' = IF TaintedSoFar(n)' THEN "POISONED" ELSE "VALID"
                /\ StateSoFar(n) = IF TaintedSoFar(n) THEN "POISONED" ELSE "VALID"
            BY <5>2, <5>3, <5>5 DEF StateSoFar
          <6> QED BY <4>1, <4>2, <4>4, <5>1, <6>1
        <5> QED BY <5>4, <5>5
      <4> QED BY <4>3, <4>4
    <3> QED BY <2>1, <3>4, <3>5
  <2> QED BY <2>4, <2>5
<1> QED BY <1>1, <1>2

(* Going through an edge: what depends on where it leads is poisoned. *)
LEMMA ApplyEdgeKeeps ==
  ASSUME WellFormed, AttestationInv, NEW e \in edgesLeft, ApplyEdge(e)
  PROVE  AttestationInv'
<1> USE DEF AttestationInv, AttestationTypeOK
<1>1. CASE EdgeState(e) \notin States
  <2>1. /\ outcome' = "raised"
        /\ UNCHANGED <<nodesLeft, edgesLeft, node_states, candidate_actions>>
    BY <1>1 DEF ApplyEdge
  <2>2. \A n \in Nodes : StateSoFar(n)' = StateSoFar(n)
    BY <2>1 DEF StateSoFar, TaintedSoFar
  <2> QED BY <2>1, <2>2
<1>2. CASE EdgeState(e) \in States
  <2>1. /\ outcome' = outcome /\ outcome = "running"
        /\ nodesLeft' = nodesLeft
        /\ edgesLeft' = edgesLeft \ {e}
        /\ node_states' = IF EdgeState(e) = "VALID" THEN node_states
                          ELSE Poison(Descendants(To[e]), node_states)
        /\ candidate_actions' \subseteq Edges
    BY <1>2 DEF ApplyEdge
  <2>2. CASE EdgeState(e) = "VALID"
    <3>1. node_states' = node_states
      BY <2>1, <2>2
    <3>2. \A n \in Nodes : TaintedSoFar(n)' <=> TaintedSoFar(n)
      BY <2>1, <2>2 DEF TaintedSoFar, Broken
    <3>3. \A n \in Nodes : StateSoFar(n)' = StateSoFar(n)
      BY <2>1, <3>2 DEF StateSoFar, Broken
    <3> QED BY <2>1, <3>1, <3>3
  <2>3. CASE EdgeState(e) # "VALID"
    <3>1. node_states' = Poison(Descendants(To[e]), node_states)
      BY <2>1, <2>3
    <3>2. node_states' \in [Nodes -> NodeStates]
      BY <3>1 DEF Poison, NodeStates
    <3>3. ASSUME NEW n \in Nodes PROVE node_states'[n] = StateSoFar(n)'
      <4>1. node_states'[n] = IF n \in Descendants(To[e]) /\ node_states[n] = "VALID"
                              THEN "POISONED" ELSE node_states[n]
        BY <3>1 DEF Poison
      <4>2. TaintedSoFar(n)' <=> TaintedSoFar(n) \/ n \in Descendants(To[e])
        BY <2>1, <2>3 DEF TaintedSoFar, Broken
      <4>3. node_states[n] = StateSoFar(n)
        OBVIOUS
      <4>4. CASE Broken(n) /\ n \notin nodesLeft
        <5>1. StateSoFar(n)' = NodeObservations[n] /\ StateSoFar(n) = NodeObservations[n]
          BY <2>1, <4>4 DEF StateSoFar, Broken
        <5>2. NodeObservations[n] # "VALID"
          BY <4>4 DEF Broken
        <5> QED BY <4>1, <4>3, <5>1, <5>2
      <4>5. CASE ~(Broken(n) /\ n \notin nodesLeft)
        <5>1. /\ StateSoFar(n)' = IF TaintedSoFar(n)' THEN "POISONED" ELSE "VALID"
              /\ StateSoFar(n) = IF TaintedSoFar(n) THEN "POISONED" ELSE "VALID"
          BY <2>1, <4>5 DEF StateSoFar, Broken
        <5> QED BY <4>1, <4>2, <4>3, <5>1
      <4> QED BY <4>4, <4>5
    <3> QED BY <2>1, <3>2, <3>3
  <2> QED BY <2>2, <2>3
<1> QED BY <1>1, <1>2

LEMMA AttestationSteps == ASSUME WellFormed 
  PROVE  AttestationInv /\ [AttestationNext]_attestationVars => AttestationInv'
<1> SUFFICES ASSUME AttestationInv, [AttestationNext]_attestationVars PROVE AttestationInv' OBVIOUS
<1>1. CASE \E s \in nodesLeft : ApplyNode(s)
  BY <1>1, ApplyNodeKeeps
<1>2. CASE \E e \in edgesLeft : ApplyEdge(e)
  BY <1>2, ApplyEdgeKeeps
<1>3. CASE Return
  <2>1. \A n \in Nodes : StateSoFar(n)' = StateSoFar(n)
    BY <1>3 DEF Return, StateSoFar, TaintedSoFar, Broken
  <2> QED BY <1>3, <2>1 DEF Return, AttestationInv, AttestationTypeOK
<1>4. CASE UNCHANGED attestationVars
  <2>1. \A n \in Nodes : StateSoFar(n)' = StateSoFar(n)
    BY <1>4 DEF attestationVars, StateSoFar, TaintedSoFar, Broken
  <2> QED BY <1>4, <2>1 DEF attestationVars, AttestationInv, AttestationTypeOK
<1> QED BY <1>1, <1>2, <1>3, <1>4 DEF AttestationNext

THEOREM AttestationInvariant == ASSUME WellFormed PROVE AttestationSpec => []AttestationInv
<1>1. AttestationInit => AttestationInv BY AttestationStarts
<1>2. AttestationInv /\ [AttestationNext]_attestationVars => AttestationInv' BY AttestationSteps
<1> QED BY <1>1, <1>2, PTL DEF AttestationSpec

(* Every variable keeps its type: evaluate never leaves a node without a   *)
(* state nor gives it one that is no verdict.                              *)
THEOREM AttestationTypeCorrect == ASSUME WellFormed PROVE AttestationSpec => []AttestationTypeOK
<1>1. AttestationInv => AttestationTypeOK BY DEF AttestationInv
<1> QED BY <1>1, AttestationInvariant, PTL

LEMMA DeclaredOnReturn == ASSUME WellFormed PROVE AttestationInv => VerdictIsDeclared
<1> SUFFICES ASSUME AttestationInv, outcome = "returned", NEW n \in Nodes
             PROVE  node_states[n] = IF Broken(n) THEN NodeObservations[n]
                                     ELSE IF Tainted(n) THEN "POISONED" ELSE "VALID"
  BY DEF VerdictIsDeclared
<1>1. nodesLeft = {} /\ edgesLeft = {} /\ node_states[n] = StateSoFar(n)
  BY DEF AttestationInv
<1>2. TaintedSoFar(n) <=> Tainted(n)
  BY <1>1 DEF TaintedSoFar, Tainted
<1> QED BY <1>1, <1>2 DEF StateSoFar

(* What evaluate returns is a function of the observations alone, whatever *)
(* order it went through them in.                                          *)
THEOREM VerdictHolds == ASSUME WellFormed PROVE AttestationSpec => []VerdictIsDeclared
<1>1. AttestationInv => VerdictIsDeclared BY DeclaredOnReturn
<1> QED BY <1>1, AttestationInvariant, PTL

LEMMA DeclaredIsUnbroken ==
  ASSUME WellFormed, VerdictIsDeclared, outcome = "returned"
  PROVE  TrustIsUnbroken
<1>1. \A n \in Nodes : node_states[n] = "VALID" => ~Broken(n) /\ ~Tainted(n)
  BY DEF VerdictIsDeclared, Broken
<1>2. \A n \in Nodes : ~Broken(n) /\ ~Tainted(n) => node_states[n] = "VALID"
  BY DEF VerdictIsDeclared
<1>3. ASSUME NEW e \in Edges, node_states[To[e]] = "VALID"
      PROVE  EdgeState(e) = "VALID" /\ node_states[From[e]] = "VALID"
  <2>1. To[e] \in Nodes /\ From[e] \in Nodes
    BY DEF WellFormed
  <2>2. ~Broken(To[e]) /\ ~Tainted(To[e])
    BY <1>1, <1>3, <2>1
  <2>3. To[e] \in Descendants(To[e])
    BY <2>1, DescendantsClosed
  <2>4. EdgeState(e) = "VALID"
    BY <2>2, <2>3 DEF Tainted
  <2>5. ~Broken(From[e])
    <3>1. SUFFICES ASSUME Broken(From[e]) PROVE FALSE OBVIOUS
    <3>2. To[e] # From[e]
      BY <3>1, <2>2
    <3>3. To[e] \in Descendants(From[e])
      BY <2>1, DescendantsClosed
    <3> QED BY <2>1, <2>2, <3>1, <3>2, <3>3 DEF Tainted
  <2>6. ~Tainted(From[e])
    <3>1. ASSUME NEW b \in Nodes, Broken(b), From[e] \in Descendants(b) \ {b} PROVE FALSE
      <4>1. To[e] \in Descendants(b)
        BY <3>1, DescendantsClosed
      <4>2. To[e] # b
        BY <3>1, <2>2
      <4> QED BY <2>2, <3>1, <4>1, <4>2 DEF Tainted
    <3>2. ASSUME NEW f \in Edges, EdgeState(f) # "VALID", From[e] \in Descendants(To[f])
          PROVE FALSE
      <4>1. To[f] \in Nodes
        BY DEF WellFormed
      <4>2. To[e] \in Descendants(To[f])
        BY <3>2, <4>1, DescendantsClosed
      <4> QED BY <2>2, <3>2, <4>2 DEF Tainted
    <3> QED BY <3>1, <3>2 DEF Tainted
  <2> QED BY <1>2, <2>1, <2>4, <2>5, <2>6
<1>4. ASSUME NEW n \in Nodes \cap DOMAIN Classifications, node_states[n] = "VALID"
      PROVE  /\ Classifications[n].outcome = "SATISFIED"
             /\ Classifications[n].observed_at <= EvaluationTime
             /\ EvaluationTime <= Classifications[n].observed_at + MaxAge
  <2>1. NodeObservations[n] = "VALID"
    BY <1>1, <1>4 DEF Broken, NodeObservations
  <2> QED BY <2>1, AttestedVerdicts
<1> QED BY <1>3, <1>4 DEF TrustIsUnbroken

(* Trust never passes a broken link or a broken node, and rests on no      *)
(* stale, future, disabled or unsatisfied classification.                  *)
THEOREM TrustHolds == ASSUME WellFormed PROVE AttestationSpec => []TrustIsUnbroken
<1>1. VerdictIsDeclared => TrustIsUnbroken
  BY DeclaredIsUnbroken DEF TrustIsUnbroken
<1> QED BY <1>1, VerdictHolds, PTL
=============================================================================
