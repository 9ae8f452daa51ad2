------------------------------ MODULE CoreInit ------------------------------
(* The start of a Solr container on its persistent volume: the initdb script  *)
(* 10-precreate-cores.sh writes solr.xml, creates the cores that do not exist *)
(* and replaces the configuration of each one by the one of the image, before *)
(* Solr starts.  The container may be stopped between any two steps, also in  *)
(* the middle of a copy or a removal, and started again from another image.   *)
(*                                                                            *)
(* The content of a file is the image it is from; which of the four config    *)
(* sets it belongs to follows from the core and the role of the node.         *)
EXTENDS Naturals, Sequences

CONSTANTS
    Cores,      \* the cores of the node
    Order,      \* the cores in the order the script goes through them
    Images,     \* the builds of the image
    FilesOf,    \* the files of a core's configuration in each image
    Role,       \* SOLR_NODE_ROLE
    MaxStarts   \* bound of the model: how often the container is started

ASSUME InitAssumption ==
    /\ Order \in Seq(Cores) /\ Order # <<>>
    /\ \A c \in Cores : \E i \in DOMAIN Order : Order[i] = c
    /\ "none" \notin Images /\ "torn" \notin Images
    /\ MaxStarts \in Nat

VARIABLES
    at,         \* where the start is, "stopped", "failed" or "running"
    image,      \* the image of the container
    next,       \* the core the script works on, as a position in Order
    starts,     \* how often the container was started
    solrXml,    \* solr.xml on the volume: the image it is from, "none" or "torn"
    made,       \* the cores that have a directory, ...
    props,      \* ... a core.properties in it, ...
    dirs,       \* ... and a conf directory
    half,       \* history: the cores that precreate-core was stopped in
    conf        \* the files in it, each with the image it is from

volume   == <<solrXml, made, props, dirs, half, conf>>
initVars == <<at, image, next, starts, solrXml, made, props, dirs, half, conf>>

Script == {"solr.xml", "write", "core", "precreate", "clear", "mkdir", "copy"}

Config(i)  == {<<f, i>> : f \in FilesOf[i]}
Core       == Order[next]
Without(c) == [conf EXCEPT ![c] = {}]

Empty == /\ solrXml = "none" /\ made = {} /\ props = {} /\ dirs = {} /\ half = {}
         /\ conf = [c \in Cores |-> {}]

InitInit ==
    /\ at = "stopped" /\ image \in Images /\ next = 1 /\ starts = 0
    /\ Empty

-----------------------------------------------------------------------------
(* The container starts; the script refuses a role it does not know. *)
Start ==
    /\ at = "stopped" /\ starts < MaxStarts
    /\ starts' = starts + 1
    /\ image' \in Images
    /\ next' = 1
    /\ at' = IF Role \in {"master", "follower"} THEN "solr.xml" ELSE "failed"
    /\ UNCHANGED volume

(* cp empties solr.xml before it writes it. *)
Truncate ==
    /\ at = "solr.xml"
    /\ at' = "write" /\ solrXml' = "torn"
    /\ UNCHANGED <<image, next, starts, made, props, dirs, half, conf>>

Write ==
    /\ at = "write"
    /\ at' = "core" /\ solrXml' = image
    /\ UNCHANGED <<image, next, starts, made, props, dirs, half, conf>>

(* Only a core without core.properties is created.  Where an interrupted      *)
(* start has left its directory, precreate-core may as well leave it alone.   *)
TestCore ==
    /\ at = "core"
    /\ \/ Core \notin props /\ at' = "precreate"
       \/ Core \in made /\ at' = "clear"
    /\ UNCHANGED <<image, next, starts, volume>>

(* precreate-core copies the config set and writes core.properties last.      *)
Precreate ==
    /\ at = "precreate"
    /\ made' = made \cup {Core} /\ dirs' = dirs \cup {Core}
    /\ \/ /\ \E f \in Config(image) \ conf[Core] : conf' = [conf EXCEPT ![Core] = @ \cup {f}]
          /\ UNCHANGED <<at, props>>
       \/ /\ Config(image) \subseteq conf[Core]
          /\ props' = props \cup {Core} /\ at' = "clear"
          /\ UNCHANGED conf
    /\ UNCHANGED <<image, next, starts, solrXml, half>>

(* Clear that trusts cp to overwrite what is there. *)
Clear_Nothing ==
    /\ at = "clear" /\ at' = "mkdir"
    /\ UNCHANGED <<image, next, starts, volume>>

(* Clear with rm -r, which fails where there is nothing. *)
Clear_NoForce ==
    /\ at = "clear"
    /\ at' = IF Core \in dirs THEN "mkdir" ELSE "failed"
    /\ dirs' = dirs \ {Core} /\ conf' = Without(Core)
    /\ UNCHANGED <<image, next, starts, solrXml, made, props, half>>

(* rm -rf: one file after the other, and the directory last. *)
Clear ==
    /\ at = "clear"
    /\ \/ /\ \E f \in conf[Core] : conf' = [conf EXCEPT ![Core] = @ \ {f}]
          /\ UNCHANGED <<at, dirs>>
       \/ /\ conf[Core] = {}
          /\ dirs' = dirs \ {Core} /\ at' = "mkdir"
          /\ UNCHANGED conf
    /\ UNCHANGED <<image, next, starts, solrXml, made, props, half>>

MakeDir ==
    /\ at = "mkdir" /\ at' = "copy"
    /\ dirs' = dirs \cup {Core}
    /\ UNCHANGED <<image, next, starts, solrXml, made, props, half, conf>>

(* cp -a, and on to the next core or to Solr itself. *)
Copy ==
    /\ at = "copy"
    /\ \/ /\ \E f \in Config(image) \ conf[Core] : conf' = [conf EXCEPT ![Core] = @ \cup {f}]
          /\ UNCHANGED <<at, next>>
       \/ /\ Config(image) \subseteq conf[Core]
          /\ IF next < Len(Order) THEN next' = next + 1 /\ at' = "core"
                                  ELSE at' = "running" /\ UNCHANGED next
          /\ UNCHANGED conf
    /\ UNCHANGED <<image, starts, solrXml, made, props, dirs, half>>

RunScript == Truncate \/ Write \/ TestCore \/ Precreate \/ Clear \/ MakeDir \/ Copy

(* Solr writes no configuration: its schema is not mutable.  So what it does  *)
(* while it runs is no step here.                                             *)

(* The container stops, whatever it was doing. *)
Stop ==
    /\ at # "stopped" /\ at' = "stopped"
    /\ half' = IF at = "precreate" THEN half \cup {Core} ELSE half
    /\ UNCHANGED <<image, next, starts, solrXml, made, props, dirs, conf>>

(* recreate-cores.sh removes the volume of the stopped container. *)
RecreateCores ==
    /\ at = "stopped"
    /\ solrXml' = "none" /\ made' = {} /\ props' = {} /\ dirs' = {} /\ half' = {}
    /\ conf' = [c \in Cores |-> {}]
    /\ UNCHANGED <<at, image, next, starts>>

InitNext == Start \/ RunScript \/ Stop \/ RecreateCores

(* The shell goes on; nothing makes anyone start the container. *)
InitSpec == InitInit /\ [][InitNext]_initVars /\ WF_initVars(RunScript)

-----------------------------------------------------------------------------
(* Whenever Solr runs, the conf directory of each core holds the files of the *)
(* image and nothing else, nothing that an earlier image or an interrupted    *)
(* start has left behind, whenever it was interrupted; and the core is known  *)
(* to Solr, unless a start was stopped while precreate-core was making it     *)
(* (10-precreate-cores.sh:41-50).                                             *)
RunsRepoConfig ==
    at = "running" => /\ solrXml = image
                      /\ \A c \in Cores : /\ c \in dirs /\ conf[c] = Config(image)
                                          /\ c \in props \cup half

(* A start that is not interrupted brings Solr up from whatever state the     *)
(* interrupted ones before it have left the volume in                         *)
(* (10-precreate-cores.sh:2, 29-57).                                          *)
StartSucceeds == (at \in Script) ~> (at \in {"running", "stopped"})
=============================================================================
