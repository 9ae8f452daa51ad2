---------------------------- MODULE CoreInitProofs ----------------------------
(* The theorems about the start of a container, for any number of cores,      *)
(* images, files and starts.                                                  *)
EXTENDS CoreInit, TLAPS

AllFiles == UNION {Config(i) : i \in Images}

InitTypeOK ==
    /\ image \in Images
    /\ next \in 1..Len(Order)
    /\ conf \in [Cores -> SUBSET AllFiles]

(* What is true of a core that the script is through with. *)
Known(c) == c \in props \cup half
Ready(c) == c \in dirs /\ conf[c] = Config(image) /\ Known(c)

Loop == {"core", "precreate", "clear", "mkdir", "copy"}

(* A core directory without core.properties exists only while precreate-core  *)
(* works on it, or where it was stopped.                                      *)
MadeIsKnown == \A c \in made : Known(c) \/ (at = "precreate" /\ c = Core)

(* How far the script has come.  The core it works on is left out of those it *)
(* is through with, should it name one twice.                                 *)
Progress ==
    /\ at \in {"solr.xml", "write"} => next = 1
    /\ at \in Loop \cup {"running"} => solrXml = image
    /\ at \in Loop => \A j \in 1..(next - 1) : Order[j] # Core => Ready(Order[j])
    /\ at \in {"clear", "mkdir", "copy"} => Known(Core)
    /\ at = "mkdir" => conf[Core] = {}
    /\ at = "copy" => Core \in dirs /\ conf[Core] \subseteq Config(image)
    /\ at = "running" => \A c \in Cores : Ready(c)

StartInv == InitTypeOK /\ MadeIsKnown /\ Progress

LEMMA OrderFacts ==
    /\ Len(Order) \in Nat \ {0}
    /\ \A i \in 1..Len(Order) : Order[i] \in Cores
    /\ \A c \in Cores : \E i \in 1..Len(Order) : Order[i] = c
BY InitAssumption

LEMMA ConfigFiles ==
    ASSUME InitTypeOK
    PROVE  Config(image) \subseteq AllFiles /\ Core \in Cores
BY OrderFacts DEF InitTypeOK, AllFiles, Core

LEMMA InitStart == ASSUME InitInit PROVE StartInv
<1>1. InitTypeOK
  BY OrderFacts DEF InitInit, Empty, InitTypeOK
<1>2. MadeIsKnown /\ Progress
  BY DEF InitInit, Empty, MadeIsKnown, Progress, Loop
<1> QED
  BY <1>1, <1>2 DEF StartInv

(* Every step keeps the types. *)
LEMMA TypeStep == ASSUME InitTypeOK, [InitNext]_initVars PROVE InitTypeOK'
<1> USE DEF InitTypeOK
<1>1. Core \in Cores /\ Config(image) \subseteq AllFiles
  BY ConfigFiles
<1>2. CASE Start
  BY <1>2, OrderFacts DEF Start, volume
<1>3. CASE Truncate \/ Write \/ TestCore \/ MakeDir \/ Stop
  BY <1>3 DEF Truncate, Write, TestCore, MakeDir, Stop, volume
<1>4. CASE Precreate
  BY <1>1, <1>4 DEF Precreate
<1>5. CASE Clear
  BY <1>1, <1>5 DEF Clear
<1>6. CASE Copy
  <2>1. next' \in 1..Len(Order)
    BY <1>6, OrderFacts DEF Copy
  <2>2. conf' \in [Cores -> SUBSET AllFiles]
    BY <1>1, <1>6 DEF Copy
  <2> QED
    BY <1>6, <2>1, <2>2 DEF Copy
<1>7. CASE RecreateCores
  BY <1>7 DEF RecreateCores
<1>8. CASE UNCHANGED initVars
  BY <1>8 DEF initVars
<1> QED
  BY <1>2, <1>3, <1>4, <1>5, <1>6, <1>7, <1>8 DEF InitNext, RunScript

(* The steps in front of the loop, and those that leave the volume alone. *)
LEMMA OutsideStep ==
    ASSUME StartInv, Start \/ Truncate \/ Write \/ Stop \/ RecreateCores
    PROVE  MadeIsKnown' /\ Progress'
<1> USE DEF StartInv
<1>1. CASE Start
  BY <1>1 DEF Start, volume, MadeIsKnown, Known, Progress, Loop
<1>2. CASE Truncate
  BY <1>2 DEF Truncate, MadeIsKnown, Known, Progress, Loop
<1>3. CASE Write
  BY <1>3 DEF Write, MadeIsKnown, Known, Progress, Loop
<1>4. CASE Stop
  BY <1>4 DEF Stop, MadeIsKnown, Known, Core, Progress, Loop
<1>5. CASE RecreateCores
  BY <1>5 DEF RecreateCores, MadeIsKnown, Progress, Loop
<1> QED
  BY <1>1, <1>2, <1>3, <1>4, <1>5

(* A step of the loop keeps the cores the script is through with. *)
LEMMA OthersReady ==
    ASSUME StartInv, at \in Loop, UNCHANGED <<image, next>>,
           \A c \in Cores \ {Core} : /\ conf'[c] = conf[c]
                                     /\ c \in dirs => c \in dirs'
                                     /\ Known(c) => Known(c)'
    PROVE  \A j \in 1..(next - 1) : Order[j] # Core => Ready(Order[j])'
<1> SUFFICES ASSUME NEW j \in 1..(next - 1), Order[j] # Core PROVE Ready(Order[j])'
  OBVIOUS
<1>1. j \in 1..Len(Order)
  BY OrderFacts DEF StartInv, InitTypeOK
<1>2. Order[j] \in Cores \ {Core} /\ Ready(Order[j])
  BY <1>1, OrderFacts DEF StartInv, Progress
<1> QED
  BY <1>2 DEF Ready, Config

LEMMA TestStep == ASSUME StartInv, TestCore PROVE MadeIsKnown' /\ Progress'
<1> USE DEF StartInv
<1>1. at = "core" /\ UNCHANGED <<image, next, volume>> /\ at' \in {"precreate", "clear"}
  BY DEF TestCore
<1>2. \A j \in 1..(next - 1) : Order[j] # Core => Ready(Order[j])'
  BY <1>1, OthersReady DEF Loop, Known, volume
<1>3. at' = "clear" => Known(Core)
  BY <1>1 DEF TestCore, MadeIsKnown
<1> QED
  BY <1>1, <1>2, <1>3 DEF MadeIsKnown, Known, Progress, Loop, Core, volume

LEMMA PrecreateStep == ASSUME StartInv, Precreate PROVE MadeIsKnown' /\ Progress'
<1> USE DEF StartInv
<1>1. /\ at = "precreate" /\ UNCHANGED <<image, next, solrXml, half>>
      /\ made' = made \cup {Core} /\ dirs' = dirs \cup {Core}
      /\ \/ at' = "precreate" /\ props' = props
         \/ at' = "clear" /\ props' = props \cup {Core}
  BY DEF Precreate
<1>2. \A c \in Cores \ {Core} : conf'[c] = conf[c]
  BY DEF Precreate, InitTypeOK
<1>3. \A j \in 1..(next - 1) : Order[j] # Core => Ready(Order[j])'
  BY <1>1, <1>2, OthersReady DEF Loop, Known
<1>4. Core' = Core
  BY <1>1 DEF Core
<1> QED
  BY <1>1, <1>3, <1>4 DEF MadeIsKnown, Known, Progress, Loop

LEMMA ClearStep == ASSUME StartInv, Clear PROVE MadeIsKnown' /\ Progress'
<1> USE DEF StartInv
<1>1. /\ at = "clear" /\ UNCHANGED <<image, next, solrXml, half, made, props>>
      /\ at' \in {"clear", "mkdir"} /\ (at' = "mkdir" => conf'[Core] = {})
      /\ \A c \in dirs : c # Core => c \in dirs'
  BY DEF Clear
<1>2. \A c \in Cores \ {Core} : conf'[c] = conf[c]
  BY DEF Clear, InitTypeOK
<1>3. \A j \in 1..(next - 1) : Order[j] # Core => Ready(Order[j])'
  BY <1>1, <1>2, OthersReady DEF Loop, Known
<1>4. Core' = Core
  BY <1>1 DEF Core
<1> QED
  BY <1>1, <1>3, <1>4 DEF MadeIsKnown, Known, Progress, Loop

LEMMA MakeDirStep == ASSUME StartInv, MakeDir PROVE MadeIsKnown' /\ Progress'
<1> USE DEF StartInv
<1>1. /\ at = "mkdir" /\ at' = "copy" /\ dirs' = dirs \cup {Core}
      /\ UNCHANGED <<image, next, solrXml, half, made, props, conf>>
  BY DEF MakeDir
<1>2. \A j \in 1..(next - 1) : Order[j] # Core => Ready(Order[j])'
  BY <1>1, OthersReady DEF Loop, Known
<1>3. Core' = Core
  BY <1>1 DEF Core
<1> QED
  BY <1>1, <1>2, <1>3 DEF MadeIsKnown, Known, Progress, Loop

LEMMA CopyStep == ASSUME StartInv, Copy PROVE MadeIsKnown' /\ Progress'
<1> USE DEF StartInv
<1>1. at = "copy" /\ UNCHANGED <<image, solrXml, half, made, props, dirs>>
  BY DEF Copy
<1>2. MadeIsKnown'
  BY <1>1 DEF Copy, MadeIsKnown, Known
<1>3. Core \in dirs /\ Known(Core) /\ Core \in Cores
  BY <1>1, ConfigFiles DEF Progress
<1>4. CASE next' = next /\ at' = "copy"
  <2>1. \E f \in Config(image) : conf' = [conf EXCEPT ![Core] = @ \cup {f}]
    BY <1>1, <1>4 DEF Copy
  <2>2. conf'[Core] \subseteq Config(image) /\ \A c \in Cores \ {Core} : conf'[c] = conf[c]
    BY <1>1, <1>3, <2>1 DEF InitTypeOK, Progress
  <2>3. \A j \in 1..(next - 1) : Order[j] # Core => Ready(Order[j])'
    BY <1>1, <1>4, <2>2, OthersReady DEF Loop, Known
  <2>4. Core' = Core
    BY <1>4 DEF Core
  <2> QED
    BY <1>1, <1>2, <1>3, <1>4, <2>2, <2>3, <2>4 DEF Known, Progress, Loop, Config
<1>5. CASE conf' = conf /\ Config(image) \subseteq conf[Core]
  <2>1. \A j \in 1..next : Ready(Order[j])'
    <3> SUFFICES ASSUME NEW j \in 1..next PROVE Ready(Order[j])'
      OBVIOUS
    <3>1. Ready(Order[j])
      <4>1. CASE Order[j] = Core
        BY <1>1, <1>3, <1>5, <4>1 DEF Progress, Ready
      <4>2. CASE Order[j] # Core
        <5>1. j \in 1..(next - 1)
          BY <4>2 DEF Core, InitTypeOK
        <5> QED
          BY <1>1, <4>2, <5>1 DEF Progress, Loop
      <4> QED
        BY <4>1, <4>2
    <3> QED
      BY <1>1, <1>5, <3>1 DEF Ready, Known, Config
  <2>2. CASE next < Len(Order)
    <3>1. next' = next + 1 /\ at' = "core"
      BY <1>5, <2>2 DEF Copy
    <3>2. \A j \in 1..(next' - 1) : Ready(Order[j])'
      <4>1. next' - 1 = next
        BY <3>1 DEF InitTypeOK
      <4> QED
        BY <2>1, <4>1
    <3> QED
      BY <1>1, <1>2, <3>1, <3>2 DEF Progress, Loop
  <2>3. CASE ~(next < Len(Order))
    <3>1. at' = "running" /\ next = Len(Order)
      BY <1>5, <2>3, OrderFacts DEF Copy, InitTypeOK
    <3>2. \A c \in Cores : Ready(c)'
      <4> SUFFICES ASSUME NEW c \in Cores PROVE Ready(c)'
        OBVIOUS
      <4>1. PICK i \in 1..Len(Order) : Order[i] = c
        BY OrderFacts
      <4> QED
        BY <2>1, <3>1, <4>1
    <3> QED
      BY <1>1, <1>2, <3>1, <3>2 DEF Progress, Loop
  <2> QED
    BY <2>2, <2>3
<1> QED
  BY <1>1, <1>4, <1>5 DEF Copy

LEMMA StartStep == ASSUME StartInv, [InitNext]_initVars PROVE StartInv'
<1>1. InitTypeOK'
  BY TypeStep DEF StartInv
<1>2. CASE UNCHANGED initVars
  BY <1>1, <1>2 DEF StartInv, MadeIsKnown, Known, Ready, Progress, Core, Config, initVars
<1> QED
  BY <1>1, <1>2, OutsideStep, TestStep, PrecreateStep, ClearStep, MakeDirStep, CopyStep
     DEF InitNext, RunScript, StartInv

LEMMA StartInduction == InitSpec => []StartInv
<1>1. InitInit => StartInv
  BY InitStart
<1>2. StartInv /\ [InitNext]_initVars => StartInv'
  BY StartStep
<1> QED
  BY <1>1, <1>2, PTL DEF InitSpec

(* Whenever Solr runs, it runs with the configuration of its image and        *)
(* nothing else (10-precreate-cores.sh:41-50).                                *)
THEOREM ConfigOfImage == InitSpec => []RunsRepoConfig
<1>1. StartInv => RunsRepoConfig
  BY DEF StartInv, Progress, Ready, Known, RunsRepoConfig
<1> QED
  BY <1>1, StartInduction, PTL
=============================================================================
