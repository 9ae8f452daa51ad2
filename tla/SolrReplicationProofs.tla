------------------------ MODULE SolrReplicationProofs ------------------------
(* The theorems about the leader, its followers and the scripts, for any      *)
(* number of followers, cores, attempts and crashes.                          *)
EXTENDS SolrReplication, TLAPS

Content == [Docs -> 0..1]

RepTypeOK ==
    /\ up \subseteq Nodes
    /\ index \in [Cores -> Content]
    /\ ulog \in [Cores -> SUBSET Docs]
    /\ commits \in [Cores -> Seq(Content)]
    /\ \A c \in Cores : Len(commits[c]) >= 1
    /\ offered \in [Cores -> Nat]
    /\ have \in [Followers -> [Cores -> Nat]]
    /\ fetching \in [Followers -> [Cores -> Nat]]
    /\ attempt \in 1..RetryAttempts
    /\ answered \in BOOLEAN
    /\ turn \in DOMAIN Order
    /\ seen \in Seq(Nat)

(* What the leader of a core has is its last commit with the log on top; a    *)
(* leader that is down falls back to the commit, but keeps the log.           *)
LeaderExact ==
    \A c \in Cores :
        index[c] = IF Leader \in up THEN Added(Last(c), ulog[c]) ELSE Last(c)

Durable == "batch" \in ulog[Seeded] \/ Last(Seeded)["batch"] = 1

(* An answer is given, and counted, only for a batch that is in the log or in *)
(* the last commit.                                                           *)
AnsweredDurable == answered \/ seeder = "acked" => Durable

(* What is left alone by most of the actions. *)
LeaderInv == RepTypeOK /\ LeaderExact /\ AnsweredDurable

USE DEF Docs, Nodes

LEMMA AddedContent ==
    ASSUME NEW held \in Content, NEW new \in SUBSET Docs
    PROVE  Added(held, new) \in Content
BY DEF Content, Added

LEMMA LastContent ==
    ASSUME RepTypeOK, NEW c \in Cores
    PROVE  Last(c) \in Content
BY DEF RepTypeOK, Last

LEMMA InitLeader == ASSUME RepInit PROVE LeaderInv
<1>1. 1 \in DOMAIN Order
  BY ReplicationAssumption
<1>2. Nothing \in Content
  BY DEF Nothing, Content
<1>3. RepTypeOK
  <2>1. <<Nothing>> \in Seq(Content) /\ Len(<<Nothing>>) >= 1
    BY <1>2
  <2>2. /\ commits \in [Cores -> Seq(Content)]
        /\ \A c \in Cores : Len(commits[c]) >= 1
    BY <2>1 DEF RepInit
  <2>3. /\ index \in [Cores -> Content] /\ ulog \in [Cores -> SUBSET Docs]
        /\ offered \in [Cores -> Nat]
    BY <1>2 DEF RepInit
  <2>4. /\ have \in [Followers -> [Cores -> Nat]]
        /\ fetching \in [Followers -> [Cores -> Nat]]
    BY DEF RepInit
  <2>5. attempt \in 1..RetryAttempts /\ seen \in Seq(Nat)
    BY ReplicationAssumption DEF RepInit
  <2> QED
    BY <1>1, <2>2, <2>3, <2>4, <2>5 DEF RepInit, RepTypeOK
<1>4. LeaderExact
  <2> SUFFICES ASSUME NEW c \in Cores PROVE index[c] = Added(Last(c), ulog[c])
    BY DEF LeaderExact, RepInit
  <2>1. Last(c) = Nothing /\ index[c] = Nothing /\ ulog[c] = {}
    BY DEF RepInit, Last
  <2> QED
    BY <2>1 DEF Added, Nothing
<1>5. AnsweredDurable
  BY DEF RepInit, AnsweredDurable
<1> QED
  BY <1>3, <1>4, <1>5 DEF LeaderInv

(* A commit is appended to those of its core and becomes the last one. *)
LEMMA Appended ==
    ASSUME RepTypeOK, NEW c \in Cores, NEW content \in Content,
           commits' = [commits EXCEPT ![c] = Append(@, content)]
    PROVE  /\ commits' \in [Cores -> Seq(Content)]
           /\ Len(commits'[c]) = Len(commits[c]) + 1
           /\ Last(c)' = content
           /\ \A b \in Cores \ {c} : commits'[b] = commits[b]
           /\ \A i \in 1..Len(commits[c]) : commits'[c][i] = commits[c][i]
<1>1. commits'[c] = Append(commits[c], content)
  BY DEF RepTypeOK
<1>2. commits[c] \in Seq(Content)
  BY DEF RepTypeOK
<1> QED
  BY <1>1, <1>2 DEF RepTypeOK, Last

(* The actions of the batch keep the leader's invariant. *)
LEMMA BatchLeader == ASSUME LeaderInv, Batch PROVE LeaderInv'
<1> USE DEF LeaderInv
<1>1. CASE Send \/ TimeOut
  <2>1. UNCHANGED <<nodeVars, leaderVars, copyVars, scriptVars>>
    BY <1>1 DEF Send, TimeOut
  <2>2. attempt' \in 1..RetryAttempts
    BY <1>1, ReplicationAssumption DEF RepTypeOK, Send, TimeOut
  <2>3. answered' \in BOOLEAN
    BY <1>1 DEF RepTypeOK, Send, TimeOut
  <2>4. RepTypeOK'
    BY <2>1, <2>2, <2>3 DEF RepTypeOK, nodeVars, leaderVars, copyVars, scriptVars
  <2>5. LeaderExact' /\ (Durable' <=> Durable)
    BY <2>1 DEF LeaderExact, Durable, Last, Added, nodeVars, leaderVars
  <2> QED
    BY <1>1, <2>4, <2>5 DEF AnsweredDurable, Send, TimeOut
<1>2. CASE Ack
  <2>1. UNCHANGED <<nodeVars, leaderVars, copyVars, scriptVars>>
    BY <1>2 DEF Ack
  <2>2. RepTypeOK'
    BY <1>2, <2>1 DEF RepTypeOK, Ack, nodeVars, leaderVars, copyVars, scriptVars
  <2>3. LeaderExact' /\ (Durable' <=> Durable)
    BY <2>1 DEF LeaderExact, Durable, Last, Added, nodeVars, leaderVars
  <2> QED
    BY <1>2, <2>2, <2>3 DEF AnsweredDurable, Ack
<1>3. ASSUME NEW a \in 1..RetryAttempts, Apply(a) PROVE LeaderInv'
  <2>1. /\ Seeded \in Cores /\ Leader \in up
        /\ index' = [index EXCEPT ![Seeded] = Added(@, {"batch"})]
        /\ ulog' = [ulog EXCEPT ![Seeded] = @ \cup {"batch"}]
        /\ UNCHANGED <<nodeVars, copyVars, scriptVars, commits, offered, seeder, attempt>>
    BY <1>3, ReplicationAssumption DEF Apply
  <2>2. Added(index[Seeded], {"batch"}) \in Content
    BY <2>1, AddedContent DEF RepTypeOK
  <2>3. RepTypeOK'
    <3>1. answered' \in BOOLEAN
      BY <1>3 DEF Apply, RepTypeOK
    <3> QED
      BY <2>1, <2>2, <3>1 DEF RepTypeOK, nodeVars, copyVars, scriptVars
  <2>4. LeaderExact'
    <3> SUFFICES ASSUME NEW c \in Cores PROVE index'[c] = Added(Last(c)', ulog'[c])
      BY <2>1 DEF LeaderExact, nodeVars
    <3>1. Last(c)' = Last(c) /\ index[c] = Added(Last(c), ulog[c])
      BY <2>1 DEF LeaderExact, Last
    <3>2. CASE c # Seeded
      BY <2>1, <3>1, <3>2 DEF RepTypeOK
    <3>3. CASE c = Seeded
      <4>1. index'[c] = Added(index[c], {"batch"}) /\ ulog'[c] = ulog[c] \cup {"batch"}
        BY <2>1, <3>3 DEF RepTypeOK
      <4> QED
        BY <4>1, <3>1 DEF Added
    <3> QED
      BY <3>2, <3>3
  <2>5. "batch" \in ulog'[Seeded]
    BY <2>1 DEF RepTypeOK
  <2> QED
    BY <2>3, <2>4, <2>5 DEF AnsweredDurable, Durable
<1> QED
  BY <1>1, <1>2, <1>3 DEF Batch

(* A commit of a core: of the leader's own accord, or with what was posted.   *)
LEMMA CommitLeader ==
    ASSUME LeaderInv, Leader \in up, NEW c \in Cores, NEW new \in SUBSET Docs,
           index' = [index EXCEPT ![c] = Added(@, new)],
           commits' = [commits EXCEPT ![c] = Append(@, index'[c])],
           ulog' = [ulog EXCEPT ![c] = {}],
           offered' = [offered EXCEPT ![c] = Len(commits[c]) + 1],
           UNCHANGED <<nodeVars, copyVars, batchVars>>,
           turn' \in DOMAIN Order, seen' \in Seq(Nat)
    PROVE  LeaderInv'
<1> USE DEF LeaderInv
<1>1. index'[c] = Added(index[c], new) /\ index'[c] \in Content
  BY AddedContent DEF RepTypeOK
<1>2. /\ commits' \in [Cores -> Seq(Content)]
      /\ Len(commits'[c]) = Len(commits[c]) + 1
      /\ Last(c)' = index'[c]
      /\ \A b \in Cores \ {c} : commits'[b] = commits[b]
  BY <1>1, Appended
<1>3. RepTypeOK'
  BY <1>1, <1>2 DEF RepTypeOK, nodeVars, copyVars, batchVars
<1>4. LeaderExact'
  <2> SUFFICES ASSUME NEW b \in Cores PROVE index'[b] = Added(Last(b)', ulog'[b])
    BY DEF LeaderExact, nodeVars
  <2>1. CASE b = c
    <3>1. ulog'[b] = {} /\ Last(b)' = index'[b] /\ index'[b] \in Content
      BY <2>1, <1>1, <1>2 DEF RepTypeOK
    <3> QED
      BY <3>1 DEF Added, Content
  <2>2. CASE b # c
    <3>1. ulog'[b] = ulog[b] /\ Last(b)' = Last(b) /\ index'[b] = index[b]
      BY <2>2, <1>2 DEF RepTypeOK, Last
    <3> QED
      BY <3>1 DEF LeaderExact
  <2> QED
    BY <2>1, <2>2
<1>5. ASSUME Durable PROVE Durable'
  <2>1. Seeded \in Cores
    BY ReplicationAssumption
  <2>2. CASE Seeded = c
    <3>1. index[c]["batch"] = 1
      BY <1>5, <2>1, <2>2 DEF Durable, LeaderExact, Added
    <3>2. index'[c]["batch"] = 1
      BY <1>1, <3>1 DEF Added
    <3> QED
      BY <3>2, <1>2, <2>2 DEF Durable
  <2>3. CASE Seeded # c
    BY <1>5, <2>1, <2>3, <1>2 DEF Durable, Last, RepTypeOK
  <2> QED
    BY <2>2, <2>3
<1> QED
  BY <1>3, <1>4, <1>5 DEF AnsweredDurable, batchVars

LEMMA HardCommitLeader ==
    ASSUME LeaderInv, NEW c \in Cores, HardCommit(c)
    PROVE  LeaderInv'
<1>1. index[c] \in Content /\ index[c] = Added(index[c], {})
  BY DEF LeaderInv, RepTypeOK, Content, Added
<1>2. index' = [index EXCEPT ![c] = Added(@, {})]
  BY <1>1 DEF HardCommit, LeaderInv, RepTypeOK
<1>3. commits' = [commits EXCEPT ![c] = Append(@, index'[c])]
  BY DEF HardCommit
<1>4. turn' \in DOMAIN Order /\ seen' \in Seq(Nat)
  BY DEF HardCommit, scriptVars, LeaderInv, RepTypeOK
<1>5. /\ Leader \in up /\ ulog' = [ulog EXCEPT ![c] = {}]
      /\ offered' = [offered EXCEPT ![c] = Len(commits[c]) + 1]
      /\ UNCHANGED <<nodeVars, copyVars, batchVars>>
  BY DEF HardCommit
<1>6. {} \in SUBSET Docs
  OBVIOUS
<1> QED
  BY <1>2, <1>3, <1>4, <1>5, <1>6, CommitLeader

(* A table of the followers stays one when one entry changes. *)
LEMMA TableEntry ==
    ASSUME NEW table \in [Followers -> [Cores -> Nat]], NEW f \in Followers,
           NEW c \in Cores, NEW i \in Nat
    PROVE  [table EXCEPT ![f] = [table[f] EXCEPT ![c] = i]] \in [Followers -> [Cores -> Nat]]
<1>1. table[f] \in [Cores -> Nat]
  OBVIOUS
<1>2. [table[f] EXCEPT ![c] = i] \in [Cores -> Nat]
  BY <1>1
<1> QED
  BY <1>2

(* What leaves the leader alone keeps its invariant. *)
LEMMA OthersLeader ==
    ASSUME LeaderInv, UNCHANGED <<nodeVars, leaderVars, batchVars>>,
           have' \in [Followers -> [Cores -> Nat]],
           fetching' \in [Followers -> [Cores -> Nat]],
           turn' \in DOMAIN Order, seen' \in Seq(Nat)
    PROVE  LeaderInv'
<1>1. RepTypeOK'
  BY DEF LeaderInv, RepTypeOK, nodeVars, leaderVars, batchVars
<1> QED
  BY <1>1 DEF LeaderInv, LeaderExact, AnsweredDurable, Durable, Last, Added,
              nodeVars, leaderVars, batchVars

LEMMA CopyLeader == ASSUME LeaderInv, Copy PROVE LeaderInv'
<1>1. PICK f \in Followers, c \in Cores : Poll(f, c) \/ Install(f, c) \/ FetchFails(f, c)
  BY DEF Copy
<1>2. /\ have' \in [Followers -> [Cores -> Nat]]
      /\ fetching' \in [Followers -> [Cores -> Nat]]
  <2>1. offered[c] \in Nat /\ fetching[f][c] \in Nat
    BY DEF LeaderInv, RepTypeOK
  <2>2. \/ UNCHANGED have
        \/ have' = [have EXCEPT ![f] = [have[f] EXCEPT ![c] = fetching[f][c]]]
    BY <1>1 DEF Poll, Install, FetchFails, LeaderInv, RepTypeOK
  <2>3. \E i \in Nat : fetching' = [fetching EXCEPT ![f] = [fetching[f] EXCEPT ![c] = i]]
    BY <1>1, <2>1 DEF Poll, Install, FetchFails, LeaderInv, RepTypeOK
  <2>4. /\ have \in [Followers -> [Cores -> Nat]]
        /\ fetching \in [Followers -> [Cores -> Nat]]
    BY DEF LeaderInv, RepTypeOK
  <2>5. [have EXCEPT ![f] = [have[f] EXCEPT ![c] = fetching[f][c]]]
            \in [Followers -> [Cores -> Nat]]
    BY <2>1, <2>4, TableEntry
  <2>6. PICK i \in Nat : fetching' = [fetching EXCEPT ![f] = [fetching[f] EXCEPT ![c] = i]]
    BY <2>3
  <2>7. fetching' \in [Followers -> [Cores -> Nat]]
    BY <2>4, <2>6, TableEntry, Zenon
  <2>8. have' \in [Followers -> [Cores -> Nat]]
    BY <2>2, <2>4, <2>5
  <2> QED
    BY <2>7, <2>8
<1>3. UNCHANGED <<nodeVars, leaderVars, batchVars, scriptVars>>
  BY <1>1 DEF Poll, Install, FetchFails
<1> QED
  BY <1>2, <1>3, OthersLeader DEF scriptVars, LeaderInv, RepTypeOK

LEMMA FaultLeader == ASSUME LeaderInv, Fault PROVE LeaderInv'
<1> USE DEF LeaderInv
<1>1. PICK n \in Nodes : Crash(n) \/ Restart(n)
  BY DEF Fault
<1>2. CASE Crash(n)
  <2>1. UNCHANGED <<scriptVars, ulog, commits, have, seeder, attempt>> /\ up' = up \ {n}
    BY <1>2 DEF Crash
  <2>2. RepTypeOK'
    <3>1. CASE n = Leader
      <4>1. /\ index' = [c \in Cores |-> Last(c)] /\ offered' = [c \in Cores |-> 0]
            /\ answered' \in {answered, FALSE} /\ UNCHANGED fetching
        BY <1>2, <3>1 DEF Crash
      <4>2. index' \in [Cores -> Content]
        BY <4>1, LastContent
      <4> QED
        BY <2>1, <4>1, <4>2 DEF RepTypeOK, scriptVars
    <3>2. CASE n # Leader
      <4>1. /\ fetching' = [fetching EXCEPT ![n] = [c \in Cores |-> 0]]
            /\ UNCHANGED <<index, offered, answered>>
        BY <1>2, <3>2 DEF Crash
      <4>2. fetching' \in [Followers -> [Cores -> Nat]]
        BY <4>1 DEF RepTypeOK
      <4> QED
        BY <2>1, <4>1, <4>2 DEF RepTypeOK, scriptVars
    <3> QED
      BY <3>1, <3>2
  <2>3. LeaderExact'
    <3> SUFFICES ASSUME NEW c \in Cores
                 PROVE  index'[c] = IF Leader \in up' THEN Added(Last(c)', ulog'[c]) ELSE Last(c)'
      BY DEF LeaderExact
    <3>1. Last(c)' = Last(c)
      BY <2>1 DEF Last
    <3>2. CASE n = Leader
      BY <1>2, <2>1, <3>1, <3>2 DEF Crash
    <3>3. CASE n # Leader
      BY <1>2, <2>1, <3>1, <3>3 DEF Crash, LeaderExact, Added
    <3> QED
      BY <3>2, <3>3
  <2>4. AnsweredDurable'
    BY <1>2, <2>1 DEF AnsweredDurable, Durable, Last, Crash
  <2> QED
    BY <2>2, <2>3, <2>4
<1>3. CASE Restart(n)
  <2>1. /\ UNCHANGED <<copyVars, batchVars, scriptVars, ulog, commits>>
        /\ up' = up \cup {n} /\ n \notin up
    BY <1>3 DEF Restart
  <2>2. CASE n = Leader
    <3>1. /\ index' = [c \in Cores |-> Added(index[c], ulog[c])]
          /\ offered' = [c \in Cores |-> Len(commits[c])]
      BY <1>3, <2>2 DEF Restart
    <3>2. \A c \in Cores : Added(index[c], ulog[c]) \in Content
      BY AddedContent DEF RepTypeOK
    <3>3. RepTypeOK'
      BY <2>1, <3>1, <3>2 DEF RepTypeOK, copyVars, batchVars, scriptVars
    <3>4. LeaderExact'
      BY <2>1, <2>2, <3>1 DEF LeaderExact, Last, Added
    <3> QED
      BY <2>1, <3>3, <3>4 DEF AnsweredDurable, Durable, Last, batchVars
  <2>3. CASE n # Leader
    <3>1. UNCHANGED <<index, offered>> /\ (Leader \in up' <=> Leader \in up)
      BY <1>3, <2>1, <2>3 DEF Restart
    <3>2. RepTypeOK'
      BY <2>1, <3>1 DEF RepTypeOK, copyVars, batchVars, scriptVars
    <3> QED
      BY <2>1, <3>1, <3>2 DEF LeaderExact, AnsweredDurable, Durable, Last, Added, batchVars
  <2> QED
    BY <2>2, <2>3
<1> QED
  BY <1>1, <1>2, <1>3

(* The position of the scripts stays among the cores. *)
LEMMA ScriptType ==
    ASSUME RepTypeOK, Script
    PROVE  turn' \in DOMAIN Order /\ seen' \in Seq(Nat)
<1> USE DEF RepTypeOK, Ends
<1>1. DOMAIN Order = 1..Len(Order) /\ Len(Order) \in Nat \ {0} /\ <<>> \in Seq(Nat)
  BY ReplicationAssumption
<1>2. ASSUME NEW answer \in BOOLEAN, SmokePost(answer) PROVE turn' \in DOMAIN Order /\ seen' \in Seq(Nat)
  <2>1. turn' \in {1, turn, turn + 1} /\ (turn' = turn + 1 => turn < Len(Order))
    BY <1>1, <1>2 DEF SmokePost
  <2>2. seen' \in {seen, <<>>}
    BY <1>2 DEF SmokePost
  <2> QED
    <3>1. turn \in 1..Len(Order) /\ turn' \in 1..Len(Order)
      BY <1>1, <2>1
    <3> QED
      BY <1>1, <2>2, <3>1
<1>3. CASE ReadBack \/ Refused \/ CheckCore
  <2>1. turn' \in {1, turn, turn + 1} /\ (turn' = turn + 1 => turn < Len(Order))
    BY <1>1, <1>3 DEF ReadBack, Refused, CheckCore
  <2>2. seen' \in {seen, <<>>}
    BY <1>3 DEF ReadBack, Refused, CheckCore
  <2> QED
    <3>1. turn \in 1..Len(Order) /\ turn' \in 1..Len(Order)
      BY <1>1, <2>1
    <3> QED
      BY <1>1, <2>2, <3>1
<1>4. ASSUME NEW version \in 0..(RetryAttempts + 2), ReadVersion(version)
      PROVE turn' \in DOMAIN Order /\ seen' \in Seq(Nat)
  <2>1. version \in Nat
    BY ReplicationAssumption
  <2> QED
    BY <1>4, <2>1 DEF ReadVersion
<1> QED
  BY <1>2, <1>3, <1>4 DEF Script

LEMMA ScriptLeader == ASSUME LeaderInv, Script PROVE LeaderInv'
<1>1. turn' \in DOMAIN Order /\ seen' \in Seq(Nat)
  BY ScriptType DEF LeaderInv
<1>2. ASSUME NEW answer \in BOOLEAN, SmokePost(answer) PROVE LeaderInv'
  <2>1. Order[turn] \in Cores
    BY ReplicationAssumption DEF LeaderInv, RepTypeOK
  <2> QED
    BY <1>1, <1>2, <2>1, CommitLeader DEF SmokePost
<1>3. CASE \/ ReadBack \/ Refused \/ CheckCore
           \/ \E version \in 0..(RetryAttempts + 2) : ReadVersion(version)
  <2>1. UNCHANGED <<nodeVars, leaderVars, copyVars, batchVars>>
    BY <1>3 DEF ReadBack, Refused, CheckCore, ReadVersion
  <2> QED
    BY <1>1, <2>1, OthersLeader DEF copyVars, LeaderInv, RepTypeOK
<1> QED
  BY <1>2, <1>3 DEF Script

LEMMA LeaderStep == ASSUME LeaderInv, [RepNext]_repVars PROVE LeaderInv'
<1>1. CASE RepNext
  BY <1>1, BatchLeader, HardCommitLeader, CopyLeader, FaultLeader, ScriptLeader DEF RepNext
<1>2. CASE UNCHANGED repVars
  <2>1. RepTypeOK'
    BY <1>2 DEF LeaderInv, RepTypeOK, repVars
  <2> QED
    BY <1>2, <2>1 DEF LeaderInv, LeaderExact, AnsweredDurable, Durable, Last, Added, repVars
<1> QED
  BY <1>1, <1>2

LEMMA LeaderMeans == ASSUME LeaderInv PROVE AckedIsKeptOnce
<1>1. Seeded \in Cores
  BY ReplicationAssumption
<1>2. index[Seeded] \in Content
  BY <1>1 DEF LeaderInv, RepTypeOK
<1>3. ASSUME Leader \in up, seeder = "acked" PROVE index[Seeded]["batch"] = 1
  BY <1>1, <1>3 DEF LeaderInv, LeaderExact, AnsweredDurable, Durable, Added
<1> QED
  BY <1>2, <1>3 DEF AckedIsKeptOnce, Content

(* A batch that is counted as sent is in the leader's index exactly once, for *)
(* any number of attempts and crashes (client.go:101, worker.go:147).         *)
THEOREM AckedStays == RepSafety => []AckedIsKeptOnce
<1>1. RepInit => LeaderInv
  BY InitLeader
<1>2. LeaderInv /\ [RepNext]_repVars => LeaderInv'
  BY LeaderStep
<1>3. LeaderInv => AckedIsKeptOnce
  BY LeaderMeans
<1> QED
  BY <1>1, <1>2, <1>3, PTL DEF RepSafety

-----------------------------------------------------------------------------
(* A document of the smoke test that is in a commit is in all that follow.    *)
SmokeStays ==
    \A c \in Cores : \A i, j \in 1..Len(commits[c]) :
        i <= j /\ commits[c][i]["smoke"] = 1 => commits[c][j]["smoke"] = 1

(* The leader offers its last commit, and a follower only goes forward.       *)
CopiesLag ==
    /\ \A c \in Cores : offered[c] \in {0, Len(commits[c])}
    /\ \A f \in Followers, c \in Cores :
           /\ have[f][c] \in 1..Len(commits[c])
           /\ fetching[f][c] \in 0..Len(commits[c])
           /\ fetching[f][c] # 0 => have[f][c] <= fetching[f][c]

CopyInv == SmokeStays /\ CopiesLag

HasSmoke(c, i) == i \in 1..Len(commits[c]) /\ commits[c][i]["smoke"] = 1
Posted(c)      == HasSmoke(c, Len(commits[c]))
Served(c)      == \A f \in Followers : HasSmoke(c, have[f][c])

(* What the scripts know: the cores they have posted to, the followers they   *)
(* have asked, the cores that have agreed.                                    *)
ScriptInv ==
    /\ script # "check" => seen = <<>>
    /\ script = "readback" => turn = 1
    /\ script = "post" => \A i \in 1..(turn - 1) : Posted(Order[i])
    /\ script \in {"readback", "check"} => \A c \in Cores : Posted(c)
    /\ script = "check" =>
           /\ Len(seen) <= Len(Asked)
           /\ Len(seen) > 0 /\ seen[1] # 0 => HasSmoke(Order[turn], seen[1])
           /\ \A i \in 1..Len(seen) :
                  Asked[i] \in Followers => seen[i] <= have[Asked[i]][Order[turn]]
           /\ \A i \in 1..(turn - 1) : Served(Order[i])
    /\ script = "converged" => \A c \in Cores : Served(c)

(* A step adds commits and moves followers forward. *)
Forward ==
    /\ \A c \in Cores :
           /\ Len(commits[c]) <= Len(commits'[c])
           /\ \A i \in 1..Len(commits[c]) : commits'[c][i] = commits[c][i]
    /\ \A f \in Followers, c \in Cores : have[f][c] <= have'[f][c]

LEMMA InitCopy == ASSUME RepInit PROVE CopyInv /\ ScriptInv
<1>1. \A c \in Cores : commits[c] = <<Nothing>> /\ Len(commits[c]) = 1
  BY DEF RepInit
<1>2. SmokeStays
  BY <1>1 DEF SmokeStays
<1>3. CopiesLag
  BY <1>1 DEF RepInit, CopiesLag
<1>4. ScriptInv
  BY DEF RepInit, ScriptInv
<1> QED
  BY <1>2, <1>3, <1>4 DEF CopyInv

(* What leaves the commits and the followers alone. *)
LEMMA CopySame ==
    ASSUME LeaderInv, CopyInv, UNCHANGED <<commits, have, fetching>>,
           \A c \in Cores : offered'[c] \in {0, offered[c], Len(commits[c])}
    PROVE  CopyInv' /\ Forward
<1>1. SmokeStays'
  BY DEF CopyInv, SmokeStays
<1>2. CopiesLag'
  BY DEF CopyInv, CopiesLag
<1>3. Forward
  BY DEF Forward, LeaderInv, RepTypeOK
<1> QED
  BY <1>1, <1>2, <1>3 DEF CopyInv

LEMMA CommitForward ==
    ASSUME LeaderInv, CopyInv, NEW c \in Cores, NEW content \in Content,
           commits' = [commits EXCEPT ![c] = Append(@, content)],
           Last(c)["smoke"] = 1 => content["smoke"] = 1,
           offered' = [offered EXCEPT ![c] = Len(commits[c]) + 1],
           UNCHANGED copyVars
    PROVE  CopyInv' /\ Forward
<1> USE DEF LeaderInv, CopyInv
<1>1. /\ Len(commits'[c]) = Len(commits[c]) + 1
      /\ Last(c)' = content
      /\ \A b \in Cores \ {c} : commits'[b] = commits[b]
      /\ \A i \in 1..Len(commits[c]) : commits'[c][i] = commits[c][i]
  BY Appended
<1>2. \A b \in Cores : Len(commits[b]) \in Nat \ {0}
  BY DEF RepTypeOK
<1>3. Forward
  BY <1>1, <1>2 DEF Forward, RepTypeOK, copyVars
<1>4. SmokeStays'
  <2> SUFFICES ASSUME NEW b \in Cores, NEW i \in 1..Len(commits'[b]), NEW j \in 1..Len(commits'[b]),
                      i <= j, commits'[b][i]["smoke"] = 1
               PROVE  commits'[b][j]["smoke"] = 1
    BY DEF SmokeStays
  <2>1. CASE b # c
    BY <1>1, <2>1 DEF SmokeStays
  <2>2. CASE b = c /\ j <= Len(commits[c])
    <3>1. i \in 1..Len(commits[c]) /\ j \in 1..Len(commits[c])
      BY <1>1, <1>2, <2>2
    <3> QED
      BY <1>1, <2>2, <3>1 DEF SmokeStays
  <2>3. CASE b = c /\ j = Len(commits[c]) + 1
    <3>1. commits'[b][j] = content
      BY <1>1, <2>3 DEF Last
    <3>2. CASE i = j
      BY <3>2
    <3>3. CASE i # j
      <4>1. i \in 1..Len(commits[c]) /\ i <= Len(commits[c])
            /\ Len(commits[c]) \in 1..Len(commits[c])
        BY <1>1, <1>2, <2>3, <3>3
      <4>2. commits[c][i]["smoke"] = 1
        BY <1>1, <2>3, <4>1
      <4>3. Last(c)["smoke"] = 1
        BY <4>1, <4>2 DEF SmokeStays, Last
      <4> QED
        BY <3>1, <4>3
    <3> QED
      BY <3>2, <3>3
  <2> QED
    BY <1>1, <1>2, <2>1, <2>2, <2>3
<1>5. CopiesLag'
  <2>1. \A b \in Cores : offered'[b] \in {0, Len(commits'[b])}
    BY <1>1 DEF CopiesLag, RepTypeOK
  <2>2. \A b \in Cores : Len(commits[b]) <= Len(commits'[b])
    BY <1>3 DEF Forward
  <2> QED
    BY <1>1, <1>2, <2>1, <2>2 DEF CopiesLag, copyVars
<1> QED
  BY <1>3, <1>4, <1>5

LEMMA CopyForward == ASSUME LeaderInv, CopyInv, Copy PROVE CopyInv' /\ Forward
<1> USE DEF LeaderInv, CopyInv
<1>1. PICK f \in Followers, c \in Cores : Poll(f, c) \/ Install(f, c) \/ FetchFails(f, c)
  BY DEF Copy
<1>2. UNCHANGED <<commits, offered>>
  BY <1>1 DEF Poll, Install, FetchFails, leaderVars
<1>3. SmokeStays'
  BY <1>2 DEF SmokeStays
<1>4. Len(commits[c]) \in Nat \ {0} /\ offered[c] \in {0, Len(commits[c])}
  BY DEF RepTypeOK, CopiesLag
<1>5. /\ have[f][c] \in 1..Len(commits[c]) /\ fetching[f][c] \in 0..Len(commits[c])
      /\ fetching[f][c] # 0 => have[f][c] <= fetching[f][c]
  BY DEF CopiesLag
<1>6. /\ have'[f][c] \in 1..Len(commits[c]) /\ fetching'[f][c] \in 0..Len(commits[c])
      /\ fetching'[f][c] # 0 => have'[f][c] <= fetching'[f][c]
      /\ have[f][c] <= have'[f][c]
  <2>1. CASE Poll(f, c)
    <3>1. have'[f][c] = have[f][c] /\ fetching'[f][c] = offered[c] /\ offered[c] # 0
      BY <2>1 DEF Poll, RepTypeOK
    <3> QED
      BY <1>4, <1>5, <3>1
  <2>2. CASE Install(f, c)
    <3>1. have'[f][c] = fetching[f][c] /\ fetching'[f][c] = 0 /\ fetching[f][c] # 0
      BY <2>2 DEF Install, RepTypeOK
    <3> QED
      BY <1>4, <1>5, <3>1
  <2>3. CASE FetchFails(f, c)
    <3>1. have'[f][c] = have[f][c] /\ fetching'[f][c] = 0
      BY <2>3 DEF FetchFails, RepTypeOK
    <3> QED
      BY <1>4, <1>5, <3>1
  <2> QED
    BY <1>1, <2>1, <2>2, <2>3
<1>7. \A g \in Followers, b \in Cores :
          <<g, b>> # <<f, c>> => have'[g][b] = have[g][b] /\ fetching'[g][b] = fetching[g][b]
  BY <1>1 DEF Poll, Install, FetchFails, RepTypeOK
<1>8. CopiesLag'
  BY <1>2, <1>6, <1>7 DEF CopiesLag
<1>9. Forward
  <2>1. \A g \in Followers, b \in Cores : have[g][b] \in Nat
    BY DEF RepTypeOK
  <2>2. \A g \in Followers, b \in Cores : have[g][b] <= have'[g][b]
    BY <1>6, <1>7, <2>1
  <2> QED
    BY <1>2, <2>2 DEF Forward, RepTypeOK
<1> QED
  BY <1>3, <1>8, <1>9

LEMMA FaultForward == ASSUME LeaderInv, CopyInv, Fault PROVE CopyInv' /\ Forward
<1> USE DEF LeaderInv, CopyInv
<1>1. PICK n \in Nodes : Crash(n) \/ Restart(n)
  BY DEF Fault
<1>2. CASE Restart(n) \/ (Crash(n) /\ n = Leader)
  <2>1. UNCHANGED <<commits, have, fetching>>
    BY <1>2 DEF Restart, Crash, copyVars
  <2>2. \A c \in Cores : offered'[c] \in {0, offered[c], Len(commits[c])}
    BY <1>2 DEF Restart, Crash
  <2> QED
    BY <2>1, <2>2, CopySame
<1>3. CASE Crash(n) /\ n # Leader
  <2>1. /\ UNCHANGED <<commits, have, offered>>
        /\ fetching' = [fetching EXCEPT ![n] = [c \in Cores |-> 0]]
    BY <1>3 DEF Crash
  <2>2. \A f \in Followers, c \in Cores : fetching'[f][c] \in {0, fetching[f][c]}
    BY <2>1 DEF RepTypeOK
  <2>3. \A c \in Cores : Len(commits[c]) \in Nat
    BY DEF RepTypeOK
  <2>4. CopiesLag'
    BY <2>1, <2>2, <2>3 DEF CopiesLag
  <2>5. SmokeStays' /\ Forward
    BY <2>1 DEF SmokeStays, Forward, RepTypeOK
  <2> QED
    BY <2>4, <2>5
<1> QED
  BY <1>1, <1>2, <1>3

(* What has the document of the smoke test keeps it. *)
LEMMA HasKept ==
    ASSUME LeaderInv, Forward, NEW c \in Cores, NEW i, HasSmoke(c, i)
    PROVE  HasSmoke(c, i)'
<1>1. Len(commits[c]) \in Nat /\ Len(commits'[c]) >= Len(commits[c])
  BY DEF LeaderInv, RepTypeOK, Forward
<1>2. commits[c] \in Seq(Content) /\ i \in 1..Len(commits[c])
  BY DEF LeaderInv, RepTypeOK, HasSmoke
<1>3. commits'[c][i] = commits[c][i]
  BY <1>2 DEF Forward
<1> QED
  BY <1>1, <1>2, <1>3 DEF HasSmoke, Forward

LEMMA PostedKept ==
    ASSUME LeaderInv, LeaderInv', CopyInv', Forward, NEW c \in Cores, Posted(c)
    PROVE  Posted(c)'
<1>1. HasSmoke(c, Len(commits[c]))'
  <2>1. commits'[c][Len(commits[c])]["smoke"] = 1
    BY DEF Posted, HasSmoke, Forward
  <2>2. Len(commits[c]) \in 1..Len(commits'[c])
    BY DEF Posted, HasSmoke, Forward, LeaderInv, RepTypeOK
  <2> QED
    BY <2>1, <2>2 DEF CopyInv, SmokeStays, HasSmoke, Posted, LeaderInv, RepTypeOK
<1> QED
  BY <1>1 DEF Posted

LEMMA ServedKept ==
    ASSUME LeaderInv, LeaderInv', CopyInv', Forward, NEW c \in Cores, Served(c)
    PROVE  Served(c)'
<1> SUFFICES ASSUME NEW f \in Followers PROVE HasSmoke(c, have[f][c])'
  BY DEF Served
<1>1. PICK i \in Nat : i = have[f][c]
  BY DEF LeaderInv, RepTypeOK
<1>2. HasSmoke(c, i)'
  BY <1>1, HasKept DEF Served
<1>3. PICK j \in Nat : j = have'[f][c]
  BY DEF LeaderInv, RepTypeOK
<1>4. j \in 1..Len(commits'[c]) /\ i <= j
  BY <1>1, <1>3 DEF CopyInv, CopiesLag, Forward
<1>5. i \in 1..Len(commits'[c]) /\ commits'[c][i]["smoke"] = 1
  BY <1>2 DEF HasSmoke
<1>6. commits'[c][j]["smoke"] = 1
  BY <1>4, <1>5 DEF CopyInv, SmokeStays
<1> QED
  BY <1>3, <1>4, <1>6 DEF HasSmoke

LEMMA OrderCores ==
    ASSUME LeaderInv
    PROVE  /\ DOMAIN Order = 1..Len(Order) /\ Len(Order) \in Nat \ {0}
           /\ \A i \in 1..Len(Order) : Order[i] \in Cores
           /\ turn \in 1..Len(Order)
           /\ \A i \in 1..(turn - 1) : i \in 1..Len(Order)
<1>1. DOMAIN Order = 1..Len(Order) /\ Len(Order) \in Nat \ {0}
  BY ReplicationAssumption
<1>2. turn \in 1..Len(Order)
  BY <1>1 DEF LeaderInv, RepTypeOK
<1> QED
  BY <1>1, <1>2 DEF Cores

(* The knowledge of the scripts is not lost while they do nothing. *)
LEMMA ScriptKept ==
    ASSUME LeaderInv, LeaderInv', CopyInv', Forward, ScriptInv, UNCHANGED scriptVars
    PROVE  ScriptInv'
<1> USE DEF scriptVars
<1>1. /\ script = "post" => \A i \in 1..(turn - 1) : Posted(Order[i])'
      /\ script \in {"readback", "check"} => \A c \in Cores : Posted(c)'
  BY PostedKept, OrderCores DEF ScriptInv
<1>2. script = "converged" => \A c \in Cores : Served(c)'
  BY ServedKept DEF ScriptInv
<1>3. ASSUME script = "check"
      PROVE  /\ Len(seen) <= Len(Asked)
             /\ Len(seen) > 0 /\ seen[1] # 0 => HasSmoke(Order[turn], seen[1])'
             /\ \A i \in 1..Len(seen) :
                    Asked[i] \in Followers => seen[i] <= have'[Asked[i]][Order[turn]]
             /\ \A i \in 1..(turn - 1) : Served(Order[i])'
  <2>1. Order[turn] \in Cores /\ Len(seen) \in Nat
    BY OrderCores DEF LeaderInv, RepTypeOK
  <2>2. Len(seen) <= Len(Asked)
    BY <1>3 DEF ScriptInv
  <2>3. ASSUME Len(seen) > 0, seen[1] # 0 PROVE HasSmoke(Order[turn], seen[1])'
    <3>1. PICK c \in Cores, i \in Nat : c = Order[turn] /\ i = seen[1]
      BY <2>1, <2>3 DEF LeaderInv, RepTypeOK
    <3>2. HasSmoke(c, i)
      BY <1>3, <2>3, <3>1 DEF ScriptInv
    <3>3. HasSmoke(c, i)'
      BY <3>2, HasKept
    <3> QED
      BY <3>1, <3>3
  <2>4. ASSUME NEW i \in 1..Len(seen), Asked[i] \in Followers
        PROVE  seen[i] <= have'[Asked[i]][Order[turn]]
    <3>1. seen[i] <= have[Asked[i]][Order[turn]]
      BY <1>3, <2>4 DEF ScriptInv
    <3>2. have[Asked[i]][Order[turn]] <= have'[Asked[i]][Order[turn]]
      BY <2>1, <2>4 DEF Forward
    <3>3. /\ seen[i] \in Nat /\ have[Asked[i]][Order[turn]] \in Nat
          /\ have'[Asked[i]][Order[turn]] \in Nat
      BY <2>1, <2>4 DEF LeaderInv, RepTypeOK
    <3> QED
      BY <3>1, <3>2, <3>3
  <2>5. \A i \in 1..(turn - 1) : Served(Order[i])'
    <3> SUFFICES ASSUME NEW i \in 1..(turn - 1) PROVE Served(Order[i])'
      OBVIOUS
    <3>1. Order[i] \in Cores /\ Served(Order[i])
      BY <1>3, OrderCores DEF ScriptInv
    <3> QED
      BY <3>1, ServedKept
  <2> QED
    BY <2>2, <2>3, <2>4, <2>5
<1> QED
  BY <1>1, <1>2, <1>3 DEF ScriptInv

LEMMA PostStep ==
    ASSUME LeaderInv, CopyInv, ScriptInv, NEW answer \in BOOLEAN, SmokePost(answer)
    PROVE  CopyInv' /\ ScriptInv'
<1>1. PICK c \in Cores : c = Order[turn]
  BY OrderCores
<1>2. /\ index' = [index EXCEPT ![c] = Added(@, {"smoke"})]
      /\ commits' = [commits EXCEPT ![c] = Append(@, index'[c])]
      /\ offered' = [offered EXCEPT ![c] = Len(commits[c]) + 1]
      /\ script = "post" /\ UNCHANGED copyVars
  BY <1>1 DEF SmokePost
<1>3. index'[c] \in Content /\ index'[c]["smoke"] = 1
  <2>1. index'[c] = Added(index[c], {"smoke"})
    BY <1>2 DEF LeaderInv, RepTypeOK
  <2>2. Added(index[c], {"smoke"}) \in Content
    BY AddedContent DEF LeaderInv, RepTypeOK
  <2> QED
    BY <2>1, <2>2 DEF Added
<1>4. CopyInv' /\ Forward
  BY <1>2, <1>3, CommitForward
<1>5. LeaderInv'
  BY ScriptLeader DEF Script
<1>6. Posted(c)'
  <2>1. Len(commits'[c]) = Len(commits[c]) + 1 /\ Last(c)' = index'[c]
    BY <1>2, <1>3, Appended DEF LeaderInv
  <2>2. Len(commits[c]) \in Nat
    BY DEF LeaderInv, RepTypeOK
  <2> QED
    BY <1>3, <2>1, <2>2 DEF Posted, HasSmoke, Last
<1>7. \A i \in 1..turn : Posted(Order[i])'
  <2> SUFFICES ASSUME NEW i \in 1..turn PROVE Posted(Order[i])'
    OBVIOUS
  <2>1. CASE i = turn
    BY <1>1, <1>6, <2>1
  <2>2. CASE i # turn
    <3>1. i \in 1..(turn - 1) /\ Order[i] \in Cores
      BY <2>2, OrderCores
    <3>2. Posted(Order[i])
      BY <1>2, <3>1 DEF ScriptInv
    <3> QED
      BY <1>4, <1>5, <3>1, <3>2, PostedKept
  <2> QED
    BY <2>1, <2>2
<1>8. seen = <<>>
  BY <1>2 DEF ScriptInv
<1>9. CASE ~answer
  <2>1. script' = "failed" /\ seen' = <<>>
    BY <1>9 DEF SmokePost, Ends
  <2>2. ScriptInv'
    BY <2>1 DEF ScriptInv
  <2> QED
    BY <1>4, <2>2
<1>10. CASE answer /\ turn < Len(Order)
  <2>1. script' = "post" /\ turn' = turn + 1 /\ seen' = <<>>
    BY <1>2, <1>8, <1>10 DEF SmokePost
  <2>2. \A i \in 1..(turn' - 1) : Posted(Order[i])'
    <3>1. turn' - 1 = turn
      BY <2>1, OrderCores
    <3> QED
      BY <1>7, <3>1
  <2>3. ScriptInv'
    BY <2>1, <2>2 DEF ScriptInv
  <2> QED
    BY <1>4, <2>3
<1>11. CASE answer /\ ~(turn < Len(Order))
  <2>1. script' = "readback" /\ turn' = 1 /\ seen' = <<>>
    BY <1>8, <1>11 DEF SmokePost
  <2>2. turn = Len(Order)
    BY <1>11, OrderCores
  <2>3. \A b \in Cores : Posted(b)'
    <3> SUFFICES ASSUME NEW b \in Cores PROVE Posted(b)'
      OBVIOUS
    <3>1. PICK i \in 1..Len(Order) : b = Order[i]
      BY OrderCores DEF Cores
    <3> QED
      BY <1>7, <2>2, <3>1
  <2>4. ScriptInv'
    BY <2>1, <2>3 DEF ScriptInv
  <2> QED
    BY <1>4, <2>4
<1> QED
  BY <1>4, <1>9, <1>10, <1>11

LEMMA ReadStep ==
    ASSUME LeaderInv, CopyInv, ScriptInv, NEW version \in Nat, ReadVersion(version)
    PROVE  ScriptInv'
<1>1. PICK c \in Cores : c = Order[turn]
  BY OrderCores
<1>2. /\ script = "check" /\ script' = "check" /\ turn' = turn
      /\ seen' = Append(seen, version) /\ Len(seen) < Len(Asked)
      /\ UNCHANGED <<commits, have>>
  BY DEF ReadVersion, leaderVars, copyVars
<1>3. seen \in Seq(Nat) /\ Len(seen) \in Nat /\ Len(Asked) \in Nat
  BY ReplicationAssumption DEF LeaderInv, RepTypeOK
<1>4. /\ Len(seen') = Len(seen) + 1 /\ seen'[Len(seen) + 1] = version
      /\ \A i \in 1..Len(seen) : seen'[i] = seen[i]
  BY <1>2, <1>3
<1>5. /\ \A b \in Cores : Posted(b) /\ Posted(b)'
      /\ \A i \in 1..(turn - 1) : Served(Order[i])'
  BY <1>2 DEF ScriptInv, Posted, Served, HasSmoke
<1>6. ASSUME seen'[1] # 0 PROVE HasSmoke(c, seen[1])'
  <2>1. CASE Len(seen) = 0
    <3>1. seen'[1] = version
      BY <1>4, <2>1
    <3>2. Asked[1] = Leader
      BY ReplicationAssumption
    <3>3. version = offered[c]
      BY <1>1, <1>6, <2>1, <3>1, <3>2 DEF ReadVersion, Version
    <3>4. version = Len(commits[c])
      BY <1>6, <3>1, <3>3 DEF CopyInv, CopiesLag
    <3> QED
      BY <1>2, <1>5, <3>1, <3>4 DEF Posted, HasSmoke
  <2>2. CASE Len(seen) > 0
    <3>1. seen'[1] = seen[1]
      BY <1>3, <1>4, <2>2
    <3> QED
      BY <1>1, <1>2, <1>6, <2>2, <3>1 DEF ScriptInv, HasSmoke
  <2> QED
    BY <1>3, <2>1, <2>2
<1>7. ASSUME NEW i \in 1..Len(seen'), Asked[i] \in Followers
      PROVE  seen'[i] <= have[Asked[i]][c]
  <2>1. CASE i \in 1..Len(seen)
    BY <1>1, <1>2, <1>4, <1>7, <2>1 DEF ScriptInv
  <2>2. CASE i = Len(seen) + 1
    <3>1. version = 0 \/ version = have[Asked[i]][c]
      BY <1>1, <1>7, <2>2, ReplicationAssumption DEF ReadVersion, Version
    <3>2. have[Asked[i]][c] \in Nat
      BY <1>7 DEF LeaderInv, RepTypeOK
    <3> QED
      BY <1>4, <2>2, <3>1, <3>2
  <2> QED
    BY <1>3, <1>4, <2>1, <2>2
<1> QED
  BY <1>1, <1>2, <1>3, <1>4, <1>5, <1>6, <1>7 DEF ScriptInv

(* Equal versions of the leader and all followers, read one after the other:  *)
(* the leader's was a commit with the document, and no follower has gone back.*)
LEMMA AgreedServes ==
    ASSUME LeaderInv, CopyInv, ScriptInv, script = "check", Len(seen) = Len(Asked), Agree
    PROVE  Served(Order[turn])
<1>1. PICK c \in Cores : c = Order[turn]
  BY OrderCores
<1>2. Asked \in Seq(Nodes) /\ Len(Asked) \in Nat \ {0} /\ seen \in Seq(Nat)
  BY ReplicationAssumption DEF LeaderInv, RepTypeOK
<1>3. HasSmoke(c, seen[1])
  BY <1>1, <1>2 DEF ScriptInv, Agree
<1> SUFFICES ASSUME NEW f \in Followers PROVE HasSmoke(c, have[f][c])
  BY <1>1 DEF Served
<1>4. PICK i \in 1..Len(Asked) : Asked[i] = f
  BY <1>2, ReplicationAssumption
<1>5. seen[i] = seen[1] /\ seen[i] <= have[f][c]
  BY <1>1, <1>2, <1>4 DEF Agree, ScriptInv
<1>6. have[f][c] \in 1..Len(commits[c])
  BY DEF CopyInv, CopiesLag
<1> QED
  BY <1>3, <1>5, <1>6 DEF HasSmoke, CopyInv, SmokeStays

LEMMA CheckStep ==
    ASSUME LeaderInv, LeaderInv', CopyInv, CopyInv', Forward, ScriptInv, CheckCore
    PROVE  ScriptInv'
<1>1. /\ script = "check" /\ Len(seen) = Len(Asked) /\ seen' = <<>>
      /\ UNCHANGED <<commits, have>>
  BY DEF CheckCore, Ends, leaderVars, copyVars
<1>2. \A c \in Cores : Posted(c)'
  BY <1>1, PostedKept DEF ScriptInv
<1>3. \A i \in 1..(turn - 1) : Served(Order[i])'
  BY <1>1, OrderCores, ServedKept DEF ScriptInv
<1>4. CASE ~Agree
  <2>1. script' = "failed" \/ (script' = "check" /\ turn' = 1)
    BY <1>1, <1>4 DEF CheckCore, Ends
  <2> QED
    BY <1>1, <1>2, <2>1, ReplicationAssumption DEF ScriptInv
<1>5. CASE Agree
  <2>1. \A i \in 1..turn : Served(Order[i])'
    <3> SUFFICES ASSUME NEW i \in 1..turn PROVE Served(Order[i])'
      OBVIOUS
    <3>1. CASE i = turn
      <4>1. Order[i] \in Cores /\ Served(Order[i])
        BY <1>1, <1>5, <3>1, AgreedServes, OrderCores
      <4> QED
        BY <4>1, ServedKept
    <3>2. CASE i # turn
      <4>1. i \in 1..(turn - 1)
        BY <3>2, OrderCores
      <4> QED
        BY <1>3, <4>1
    <3> QED
      BY <3>1, <3>2
  <2>2. CASE turn < Len(Order)
    <3>1. script' = "check" /\ turn' = turn + 1
      BY <1>1, <1>5, <2>2 DEF CheckCore
    <3>2. \A i \in 1..(turn' - 1) : Served(Order[i])'
      <4>1. turn' - 1 = turn
        BY <3>1, OrderCores
      <4> QED
        BY <2>1, <4>1
    <3> QED
      BY <1>1, <1>2, <3>1, <3>2, ReplicationAssumption DEF ScriptInv
  <2>3. CASE ~(turn < Len(Order))
    <3>1. script' = "converged"
      BY <1>5, <2>3 DEF CheckCore, Ends
    <3>2. \A c \in Cores : Served(c)'
      <4> SUFFICES ASSUME NEW c \in Cores PROVE Served(c)'
        OBVIOUS
      <4>1. PICK i \in 1..Len(Order) : c = Order[i]
        BY OrderCores DEF Cores
      <4> QED
        BY <2>1, <2>3, <4>1, OrderCores
    <3> QED
      BY <1>1, <3>1, <3>2 DEF ScriptInv
  <2> QED
    BY <2>2, <2>3
<1> QED
  BY <1>4, <1>5

LEMMA ScriptStep ==
    ASSUME LeaderInv, CopyInv, ScriptInv, Script
    PROVE  CopyInv' /\ ScriptInv'
<1>1. ASSUME NEW answer \in BOOLEAN, SmokePost(answer) PROVE CopyInv' /\ ScriptInv'
  BY <1>1, PostStep
<1>2. ASSUME \/ ReadBack \/ Refused \/ CheckCore
             \/ \E version \in 0..(RetryAttempts + 2) : ReadVersion(version)
      PROVE  CopyInv' /\ ScriptInv'
  <2>1. UNCHANGED <<leaderVars, copyVars>>
    BY <1>2 DEF ReadBack, Refused, CheckCore, ReadVersion
  <2>2. CopyInv' /\ Forward
    BY <2>1, CopySame DEF leaderVars, copyVars
  <2>3. LeaderInv'
    BY ScriptLeader
  <2>4. CASE ReadBack
    <3>1. script = "readback" /\ seen = <<>> /\ turn = 1
      BY <2>4 DEF ReadBack, ScriptInv
    <3>2. \A c \in Cores : Posted(c)'
      BY <3>1, <2>2, <2>3, PostedKept DEF ScriptInv
    <3>3. /\ script' \in {"check", "failed"} /\ seen' = <<>> /\ turn' = 1
      BY <2>4, <3>1 DEF ReadBack, Ends
    <3>4. ScriptInv'
      BY <3>2, <3>3, ReplicationAssumption DEF ScriptInv
    <3> QED
      BY <2>2, <3>4
  <2>5. CASE Refused
    <3>1. script' = "failed" /\ seen' = <<>>
      BY <2>5 DEF Refused, Ends
    <3> QED
      BY <2>2, <3>1 DEF ScriptInv
  <2>6. CASE CheckCore
    BY <2>2, <2>3, <2>6, CheckStep
  <2>7. ASSUME NEW version \in 0..(RetryAttempts + 2), ReadVersion(version)
        PROVE  ScriptInv'
    <3>1. version \in Nat
      BY ReplicationAssumption
    <3> QED
      BY <2>7, <3>1, ReadStep
  <2> QED
    BY <1>2, <2>2, <2>4, <2>5, <2>6, <2>7
<1> QED
  BY <1>1, <1>2 DEF Script

RepInv == LeaderInv /\ CopyInv /\ ScriptInv

LEMMA RepStep == ASSUME RepInv, [RepNext]_repVars PROVE RepInv'
<1> USE DEF RepInv
<1>1. LeaderInv'
  BY LeaderStep
<1>2. CASE Batch
  <2>1. UNCHANGED <<commits, have, fetching, offered, scriptVars>>
    BY <1>2 DEF Batch, Send, Apply, Ack, TimeOut, leaderVars, copyVars
  <2> QED
    BY <1>1, <2>1, CopySame, ScriptKept
<1>3. ASSUME NEW c \in Cores, HardCommit(c) PROVE RepInv'
  <2>1. commits' = [commits EXCEPT ![c] = Append(@, index[c])]
        /\ offered' = [offered EXCEPT ![c] = Len(commits[c]) + 1]
        /\ UNCHANGED <<copyVars, scriptVars>>
    BY <1>3 DEF HardCommit
  <2>2. index[c] \in Content /\ (Last(c)["smoke"] = 1 => index[c]["smoke"] = 1)
    BY <1>3 DEF HardCommit, LeaderInv, LeaderExact, RepTypeOK, Added
  <2>3. CopyInv' /\ Forward
    BY <2>1, <2>2, CommitForward
  <2> QED
    BY <1>1, <2>1, <2>3, ScriptKept
<1>4. CASE Copy
  <2>1. UNCHANGED scriptVars
    BY <1>4 DEF Copy, Poll, Install, FetchFails
  <2> QED
    BY <1>1, <1>4, <2>1, CopyForward, ScriptKept
<1>5. CASE Fault
  <2>1. UNCHANGED scriptVars
    BY <1>5 DEF Fault, Crash, Restart
  <2> QED
    BY <1>1, <1>5, <2>1, FaultForward, ScriptKept
<1>6. CASE Script
  BY <1>1, <1>6, ScriptStep
<1>7. CASE UNCHANGED repVars
  <2>1. UNCHANGED <<commits, have, fetching, offered, scriptVars>>
    BY <1>7 DEF repVars, scriptVars
  <2> QED
    BY <1>1, <2>1, CopySame, ScriptKept
<1> QED
  BY <1>2, <1>3, <1>4, <1>5, <1>6, <1>7 DEF RepNext

(* When the scripts say converged, every follower serves what the smoke test  *)
(* asks it for, for any number of followers, cores, tries and crashes         *)
(* (check-index-versions.sh:12-25, smoke-test.sh:82-89).                      *)
THEOREM ConvergedServes == RepSafety => []ConvergedMeansServed
<1>1. RepInit => RepInv
  BY InitLeader, InitCopy DEF RepInv
<1>2. RepInv /\ [RepNext]_repVars => RepInv'
  BY RepStep
<1>3. RepInv => ConvergedMeansServed
  BY DEF RepInv, ScriptInv, ConvergedMeansServed, Served, HasSmoke, Serves
<1> QED
  BY <1>1, <1>2, <1>3, PTL DEF RepSafety
=============================================================================
