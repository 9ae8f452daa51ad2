--------------------------- MODULE SolrReplication ---------------------------
(* The cores of the stack as solrconfig.xml sets them up: a leader that logs, *)
(* indexes and commits what it is sent, followers that poll it and fetch its  *)
(* commits, a batch of the seeder with its retries, and the smoke test with   *)
(* its scripts, which posts one document per core and waits until all nodes   *)
(* report one index version.  Nodes crash, and come back with their volumes.  *)
(*                                                                            *)
(* A version is a position in the commits of a core, the first of which is    *)
(* the empty index; 0 is the answer the script did not get.                   *)
EXTENDS Naturals, Sequences

CONSTANTS
    Leader,
    Followers,
    Asked,          \* the nodes in the order check-index-versions.sh asks them
    Order,          \* the cores in the order the scripts go through them
    Seeded,         \* the core the batch is for
    RetryAttempts,  \* cfg.RetryAttempts
    MaxCrashes,     \* bound of the model: how many crashes there are
    MaxTries        \* how often wait-for-replication.sh checks

Nodes == {Leader} \cup Followers
Cores == {Order[i] : i \in DOMAIN Order}
Docs  == {"batch", "smoke"}

ASSUME ReplicationAssumption ==
    /\ Leader \notin Followers
    /\ Asked \in Seq(Nodes) /\ Asked # <<>> /\ Asked[1] = Leader
    /\ \A f \in Followers : \E i \in DOMAIN Asked : Asked[i] = f
    /\ Order \in Seq(Cores) /\ Order # <<>> /\ Seeded \in Cores
    /\ \A i, j \in DOMAIN Order : Order[i] = Order[j] => i = j
    /\ RetryAttempts \in Nat \ {0} /\ MaxCrashes \in Nat /\ MaxTries \in Nat \ {0}

VARIABLES
    up, crashes,    \* the nodes that run; how many have crashed so far
    index,          \* how often the leader's index of a core holds a document
    ulog,           \* the documents in the update log of a core since its last commit
    commits,        \* the commits of a core, each with what it holds
    offered,        \* the commit of a core the leader offers, 0 if it offers none
    have,           \* the commit each follower serves
    fetching,       \* the commit each follower is fetching, 0 if it fetches none
    seeder,         \* the batch: "idle", "sent", "acked" or "failed"
    attempt,        \* the attempt the worker is at
    wire,           \* the attempts on their way to Solr
    answered,       \* whether Solr has answered the one the worker waits for
    script,         \* where the smoke test is
    turn,           \* the core it is at, as a position in Order
    seen,           \* the versions of the core it has read so far
    tries           \* how often it has started to check

nodeVars   == <<up, crashes>>
leaderVars == <<index, ulog, commits, offered>>
copyVars   == <<have, fetching>>
batchVars  == <<seeder, attempt, wire, answered>>
scriptVars == <<script, turn, seen, tries>>
repVars    == <<up, crashes, index, ulog, commits, offered, have, fetching, seeder, attempt,
                wire, answered, script, turn, seen, tries>>

Nothing == [d \in Docs |-> 0]
Last(c) == commits[c][Len(commits[c])]

RepInit ==
    /\ up = Nodes /\ crashes = 0
    /\ index = [c \in Cores |-> Nothing] /\ ulog = [c \in Cores |-> {}]
    /\ commits = [c \in Cores |-> <<Nothing>>] /\ offered = [c \in Cores |-> 1]
    /\ have = [f \in Followers |-> [c \in Cores |-> 1]]
    /\ fetching = [f \in Followers |-> [c \in Cores |-> 0]]
    /\ seeder = "idle" /\ attempt = 1 /\ wire = {} /\ answered = FALSE
    /\ script = "post" /\ turn = 1 /\ seen = <<>> /\ tries = 1

-----------------------------------------------------------------------------
(* The update request with overwrite=false: Solr adds without looking for the *)
(* id.                                                                        *)
Added_Appends(held, new) == [d \in Docs |-> IF d \in new THEN held[d] + 1 ELSE held[d]]

(* What is held once the documents are added: overwrite=true replaces the     *)
(* document of the same id.                                                   *)
Added(held, new) == [d \in Docs |-> IF d \in new THEN 1 ELSE held[d]]

Request(a) == IF Leader \in up THEN wire \cup {a} ELSE wire

(* The worker sends the batch. *)
Send ==
    /\ seeder = "idle"
    /\ seeder' = "sent" /\ wire' = Request(attempt)
    /\ UNCHANGED <<nodeVars, leaderVars, copyVars, scriptVars, attempt, answered>>

(* Solr applies a request, which the worker may have given up long since. *)
Apply(a) ==
    /\ Leader \in up /\ a \in wire
    /\ index' = [index EXCEPT ![Seeded] = Added(@, {"batch"})]
    /\ ulog' = [ulog EXCEPT ![Seeded] = @ \cup {"batch"}]
    /\ wire' = wire \ {a} /\ answered' = (answered \/ a = attempt)
    /\ UNCHANGED <<nodeVars, copyVars, scriptVars, commits, offered, seeder, attempt>>

(* The answer arrives in time, ... *)
Ack ==
    /\ seeder = "sent" /\ answered
    /\ seeder' = "acked"
    /\ UNCHANGED <<nodeVars, leaderVars, copyVars, scriptVars, attempt, wire, answered>>

(* ... or it does not: the request may still be on its way, may have been     *)
(* applied, or there is no one to take it.                                    *)
TimeOut ==
    /\ seeder = "sent" /\ answered' = FALSE
    /\ IF attempt < RetryAttempts
       THEN attempt' = attempt + 1 /\ wire' = Request(attempt + 1) /\ UNCHANGED seeder
       ELSE seeder' = "failed" /\ UNCHANGED <<attempt, wire>>
    /\ UNCHANGED <<nodeVars, leaderVars, copyVars, scriptVars>>

-----------------------------------------------------------------------------
(* autoCommit: fifteen seconds after the first update that is not committed.  *)
HardCommit(c) ==
    /\ Leader \in up /\ ulog[c] # {}
    /\ commits' = [commits EXCEPT ![c] = Append(@, index[c])]
    /\ ulog' = [ulog EXCEPT ![c] = {}]
    /\ offered' = [offered EXCEPT ![c] = Len(commits[c]) + 1]
    /\ UNCHANGED <<nodeVars, copyVars, batchVars, scriptVars, index>>

(* A follower polls, and starts to fetch what it does not have. *)
Poll(f, c) ==
    /\ {Leader, f} \subseteq up /\ fetching[f][c] = 0
    /\ offered[c] \notin {0, have[f][c]}
    /\ fetching' = [fetching EXCEPT ![f][c] = offered[c]]
    /\ UNCHANGED <<nodeVars, leaderVars, batchVars, scriptVars, have>>

Install(f, c) ==
    /\ {Leader, f} \subseteq up /\ fetching[f][c] # 0
    /\ have' = [have EXCEPT ![f][c] = fetching[f][c]]
    /\ fetching' = [fetching EXCEPT ![f][c] = 0]
    /\ UNCHANGED <<nodeVars, leaderVars, batchVars, scriptVars>>

(* A fetch fails when the leader is gone or has deleted the files of the      *)
(* commit, which it may once there is a newer one and the reserve is over.    *)
FetchFails(f, c) ==
    /\ fetching[f][c] # 0
    /\ Leader \notin up \/ fetching[f][c] < Len(commits[c])
    /\ fetching' = [fetching EXCEPT ![f][c] = 0]
    /\ UNCHANGED <<nodeVars, leaderVars, batchVars, scriptVars, have>>

-----------------------------------------------------------------------------
(* A leader falls back to what it has committed and loses the requests it has *)
(* not applied; an answer it has already sent may still arrive.  A follower   *)
(* loses the fetch it is at.                                                  *)
Crash(n) ==
    /\ n \in up /\ crashes < MaxCrashes
    /\ up' = up \ {n} /\ crashes' = crashes + 1
    /\ IF n = Leader
       THEN /\ index' = [c \in Cores |-> Last(c)] /\ offered' = [c \in Cores |-> 0]
            /\ wire' = {} /\ answered' \in {answered, FALSE} /\ UNCHANGED fetching
       ELSE /\ fetching' = [fetching EXCEPT ![n] = [c \in Cores |-> 0]]
            /\ UNCHANGED <<index, offered, wire, answered>>
    /\ UNCHANGED <<scriptVars, ulog, commits, have, seeder, attempt>>

(* Restart of a leader without an update log. *)
Restart_NoReplay(n) ==
    /\ n \in Nodes \ up
    /\ up' = up \cup {n}
    /\ IF n = Leader THEN /\ ulog' = [c \in Cores |-> {}]
                          /\ offered' = [c \in Cores |-> Len(commits[c])]
                     ELSE UNCHANGED <<ulog, offered>>
    /\ UNCHANGED <<copyVars, batchVars, scriptVars, crashes, index, commits>>

(* Restart of a leader with replicateAfter commit only. *)
Restart_OffersNothing(n) ==
    /\ n \in Nodes \ up
    /\ up' = up \cup {n}
    /\ IF n = Leader THEN index' = [c \in Cores |-> Added(index[c], ulog[c])] ELSE UNCHANGED index
    /\ UNCHANGED <<copyVars, batchVars, scriptVars, crashes, ulog, commits, offered>>

(* The leader comes back: it replays the log and, replicateAfter startup,     *)
(* offers its last commit.                                                    *)
Restart(n) ==
    /\ n \in Nodes \ up
    /\ up' = up \cup {n}
    /\ IF n = Leader THEN /\ index' = [c \in Cores |-> Added(index[c], ulog[c])]
                          /\ offered' = [c \in Cores |-> Len(commits[c])]
                     ELSE UNCHANGED <<index, offered>>
    /\ UNCHANGED <<copyVars, batchVars, scriptVars, crashes, ulog, commits>>

-----------------------------------------------------------------------------
(* The scripts end; the smoke test gives up at the first command that fails.  *)
Ends(how) == script' = how /\ turn' = 1 /\ seen' = <<>> /\ tries' = 1

(* It posts a document to the core with commit=true, ... *)
SmokePost(answer) ==
    /\ script = "post" /\ Leader \in up
    /\ LET c == Order[turn] IN
       /\ index' = [index EXCEPT ![c] = Added(@, {"smoke"})]
       /\ commits' = [commits EXCEPT ![c] = Append(@, index'[c])]
       /\ offered' = [offered EXCEPT ![c] = Len(commits[c]) + 1]
       /\ ulog' = [ulog EXCEPT ![c] = {}]
    /\ IF ~answer THEN Ends("failed")
       ELSE /\ UNCHANGED <<seen, tries>>
            /\ IF turn < Len(Order) THEN turn' = turn + 1 /\ UNCHANGED script
                                    ELSE turn' = 1 /\ script' = "readback"
    /\ UNCHANGED <<nodeVars, copyVars, batchVars>>

(* ... reads both back from the leader, ... *)
ReadBack ==
    /\ script = "readback" /\ Leader \in up
    /\ IF \A c \in Cores : index[c]["smoke"] > 0
       THEN script' = "check" /\ UNCHANGED <<turn, seen, tries>> ELSE Ends("failed")
    /\ UNCHANGED <<nodeVars, leaderVars, copyVars, batchVars>>

Refused ==
    /\ script \in {"post", "readback"} /\ Leader \notin up
    /\ Ends("failed")
    /\ UNCHANGED <<nodeVars, leaderVars, copyVars, batchVars>>

Version(n, c) == IF n = Leader THEN offered[c] ELSE have[n][c]

(* ... and asks one node after the other for the version of a core, where an  *)
(* answer may be missing: -e is off in a command substitution.                *)
ReadVersion(version) ==
    /\ script = "check" /\ Len(seen) < Len(Asked)
    /\ LET n == Asked[Len(seen) + 1] IN
       \/ version = 0
       \/ n \in up /\ version = Version(n, Order[turn])
    /\ seen' = Append(seen, version)
    /\ UNCHANGED <<nodeVars, leaderVars, copyVars, batchVars, script, turn, tries>>

(* Agree without the test for an empty answer. *)
Agree_EvenEmpty == \A i \in DOMAIN seen : seen[i] = seen[1]

Agree == seen[1] # 0 /\ \A i \in DOMAIN seen : seen[i] = seen[1]

(* A core that agrees is followed by the next; one that does not ends the     *)
(* check, which starts again two seconds later with the first core.           *)
CheckCore ==
    /\ script = "check" /\ Len(seen) = Len(Asked)
    /\ IF Agree
       THEN IF turn < Len(Order) THEN turn' = turn + 1 /\ seen' = <<>> /\ UNCHANGED <<script, tries>>
                                 ELSE Ends("converged")
       ELSE IF tries < MaxTries
       THEN turn' = 1 /\ seen' = <<>> /\ tries' = tries + 1 /\ UNCHANGED script
       ELSE Ends("failed")
    /\ UNCHANGED <<nodeVars, leaderVars, copyVars, batchVars>>

-----------------------------------------------------------------------------
Batch  == Send \/ (\E a \in 1..RetryAttempts : Apply(a)) \/ Ack \/ TimeOut
Copy   == \E f \in Followers, c \in Cores : Poll(f, c) \/ Install(f, c) \/ FetchFails(f, c)
Fault  == \E n \in Nodes : Crash(n) \/ Restart(n)
Script == \/ \E answer \in BOOLEAN : SmokePost(answer)
          \/ ReadBack \/ Refused \/ CheckCore
          \/ \E version \in 0..(RetryAttempts + 2) : ReadVersion(version)

RepNext == Batch \/ (\E c \in Cores : HardCommit(c)) \/ Copy \/ Fault \/ Script

RepSafety == RepInit /\ [][RepNext]_repVars

(* Timers drive the commits and the polls, and a fetch that can end does.     *)
(* Nothing makes the seeder, the operator who restarts a node, or the script  *)
(* go on.                                                                     *)
RepSpec ==
    /\ RepSafety
    /\ \A c \in Cores : WF_repVars(HardCommit(c))
    /\ \A f \in Followers, c \in Cores :
           WF_repVars(Poll(f, c)) /\ WF_repVars(Install(f, c) \/ FetchFails(f, c))

Serves(f, c, d) == commits[c][have[f][c]][d] > 0

(* A batch that the seeder counts as sent is in the leader's index exactly    *)
(* once, however many of its attempts were applied, before or after they      *)
(* timed out, and whatever the leader lost in a crash (client.go:101,         *)
(* worker.go:147, updateLog).                                                 *)
AckedIsKeptOnce ==
    Leader \in up => /\ seeder = "acked" => index[Seeded]["batch"] = 1
                     /\ index[Seeded]["batch"] <= 1

(* When the scripts conclude that replication has converged, from versions    *)
(* read one after the other while commits, fetches and crashes go on, every   *)
(* follower serves the documents the smoke test will ask it for               *)
(* (check-index-versions.sh:12-25, smoke-test.sh:82-89).                      *)
ConvergedMeansServed ==
    script = "converged" => \A f \in Followers, c \in Cores : Serves(f, c, "smoke")

(* A batch that was counted as sent comes to be served by every follower, or  *)
(* some node is down: a crash of the leader, a restart and a fetch that has   *)
(* lost its files do not stop it (solrconfig.xml:18-21, 70-74).               *)
AckedReachesFollowers ==
    seeder = "acked" ~> up # Nodes \/ \A f \in Followers : Serves(f, Seeded, "batch")
=============================================================================
