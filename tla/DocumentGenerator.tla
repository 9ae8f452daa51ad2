-------------------------- MODULE DocumentGenerator --------------------------
(* The documents of the seeder (app/internal/seeder/generator), over several  *)
(* runs of the program: how a document gets its id from the clock and the     *)
(* counter of its kind, and the fields that a loop or a calculation fills.    *)
(* The two generators share the clock only, so they are interleaved at whole  *)
(* documents.  A random number is any number it can be; wording is left out.  *)
EXTENDS Integers, FiniteSets, SequencesExt

CONSTANTS
    ThisYear,   \* time.Now().UTC().Year()
    Actors,     \* actorNames: more than a cast
    Numbers,    \* the nine digits of an ISBN that are drawn
    MaxClock,   \* bound of the model: the last reading of the clock
    MaxDocs,    \* bound of the model: how many documents are generated
    MaxRuns     \* bound of the model: how often the program is started

ASSUME GeneratorAssumption ==
    /\ ThisYear \in Nat
    /\ IsFiniteSet(Actors) /\ Cardinality(Actors) > 3
    /\ Numbers \subseteq [1..9 -> 0..9]
    /\ {MaxClock, MaxDocs, MaxRuns} \subseteq Nat

MovieGenres == {"Science Fiction", "Fantasy", "Thriller", "Drama", "Mystery", "Crime",
                "Adventure", "Animation", "Romance"}
BookGenres  == {"Fantasy", "Science Fiction", "Mystery", "Historical Fiction",
                "Literary Fiction", "Romance", "Thriller", "Adventure", "Classic"}

(* The genres with texts in movieConflicts and bookConflicts. *)
MovieConflicts == {"Science Fiction", "Fantasy", "Thriller", "Drama", "Mystery", "Crime",
                   "Adventure", "Animation", "Romance"}
BookConflicts  == {"Fantasy", "Science Fiction", "Mystery", "Historical Fiction",
                   "Literary Fiction", "Romance", "Thriller", "Adventure", "Classic"}

(* Conflicts without an entry for the last genre. *)
Conflicts_NoClassic(k) == IF k = "movie" THEN MovieConflicts ELSE BookConflicts \ {"Classic"}

Conflicts(k) == IF k = "movie" THEN MovieConflicts ELSE BookConflicts

VARIABLES
    run,        \* which run of the program this is
    clock,      \* time.Now() in nanoseconds
    rewound,    \* history: the clock was set back
    counter,    \* movieCounter and bookCounter
    ids,        \* history: the id of each document, with the run it is from
    at,         \* the field that is filled next, "done", "idle" or "panic"
    doc         \* the document in the making, as far as a loop fills it

genVars == <<run, clock, rewound, counter, ids, at, doc>>

Kind == {"movie", "book"}

NoDoc == [kind |-> "movie", year |-> 0, cast |-> <<>>, isbn |-> <<>>]

GenInit ==
    /\ run = 1
    /\ clock = 0
    /\ rewound = FALSE
    /\ counter = [k \in Kind |-> 0]
    /\ ids = <<>>
    /\ at = "idle"
    /\ doc = NoDoc

-----------------------------------------------------------------------------
(* nextID without the counter. *)
nextID_ClockOnly(k) == [prefix |-> k, time |-> clock, number |-> 0, run |-> run]

(* The run is not part of what the program writes. *)
nextID(k) == [prefix |-> k, time |-> clock, number |-> counter[k] + 1, run |-> run]

(* Generate up to synopsis or summary: Intn panics where there is nothing to  *)
(* pick from.                                                                 *)
Begin(k) ==
    /\ at = "idle"
    /\ Len(ids) < MaxDocs
    /\ ids' = Append(ids, nextID(k))
    /\ counter' = [counter EXCEPT ![k] = @ + 1]
    /\ \E genre \in IF k = "movie" THEN MovieGenres ELSE BookGenres :
          at' = IF genre \notin Conflicts(k) THEN "panic"
                ELSE IF k = "movie" THEN "year" ELSE "isbn"
    /\ doc' = [NoDoc EXCEPT !.kind = k]
    /\ UNCHANGED <<run, clock, rewound>>

(* checksumISBN13 without the outer remainder. *)
checksumISBN13_Unwrapped(prefix) ==
    LET Add(sum, i) == sum + prefix[i] * (IF i % 2 = 1 THEN 1 ELSE 3)
    IN  Append(prefix, 10 - (FoldLeftDomain(Add, 0, prefix) % 10))

(* The index of the code starts at zero. *)
checksumISBN13(prefix) ==
    LET Add(sum, i) == sum + prefix[i] * (IF (i - 1) % 2 = 0 THEN 1 ELSE 3)
    IN  Append(prefix, (10 - (FoldLeftDomain(Add, 0, prefix) % 10)) % 10)

Isbn ==
    /\ at = "isbn"
    /\ \E digits \in Numbers :
          doc' = [doc EXCEPT !.isbn = checksumISBN13(<<9, 7, 8>> \o digits)]
    /\ at' = "year"
    /\ UNCHANGED <<run, clock, rewound, counter, ids>>

(* weightedYear: every year it may return. *)
weightedYear(min, max) ==
    LET rangeSize == max - min + 1
        boosted   == {base + boost : base \in min..max, boost \in 0..(rangeSize \div 3 - 1)}
    IN  {y \in boosted : y <= max}
        \cup (IF \E y \in boosted : y > max THEN {max - n : n \in 0..2} ELSE {})

(* Intn panics unless it has something to choose from. *)
Year ==
    /\ at = "year"
    /\ LET min   == IF doc.kind = "movie" THEN 1980 ELSE 1900
           range == ThisYear - min + 1
       IN  IF range <= 0 \/ range \div 3 <= 0
             THEN at' = "panic" /\ UNCHANGED doc
             ELSE /\ doc' \in {[doc EXCEPT !.year = y] : y \in weightedYear(min, ThisYear)}
                  /\ at' = IF doc.kind = "movie" THEN "cast" ELSE "done"
    /\ UNCHANGED <<run, clock, rewound, counter, ids>>

Full(cast) == Len(cast) = 3

(* The rounds of pickDistinct that end in a new name: one that was selected   *)
(* before is drawn again.                                                     *)
CastOne ==
    /\ at = "cast"
    /\ \E a \in Actors \ ToSet(doc.cast) : doc' = [doc EXCEPT !.cast = Append(@, a)]
    /\ at' = IF Full(doc'.cast) THEN "done" ELSE "cast"
    /\ UNCHANGED <<run, clock, rewound, counter, ids>>

(* The producer gets the document. *)
Deliver ==
    /\ at = "done"
    /\ at' = "idle"
    /\ doc' = NoDoc
    /\ UNCHANGED <<run, clock, rewound, counter, ids>>

(* The clock moves on, or is set back. *)
Pass ==
    /\ at = "idle"
    /\ clock' \in 0..MaxClock \ {clock}
    /\ rewound' = (rewound \/ clock' < clock)
    /\ UNCHANGED <<run, counter, ids, at, doc>>

(* The program is started again; that takes longer than a tick of the clock,  *)
(* which nobody sets back then without it showing in rewound.                 *)
Restart ==
    /\ run < MaxRuns /\ at # "panic"
    /\ run' = run + 1
    /\ clock' \in 0..MaxClock
    /\ rewound' = (rewound \/ clock' <= clock)
    /\ counter' = [k \in Kind |-> 0]
    /\ at' = "idle" /\ doc' = NoDoc
    /\ UNCHANGED ids

GenNext ==
    \/ \E k \in Kind : Begin(k)
    \/ Isbn \/ Year \/ CastOne \/ Deliver
    \/ Pass \/ Restart

GenSpec == GenInit /\ [][GenNext]_genVars

-----------------------------------------------------------------------------
(* No two documents get the same id, movies and books, within a run and over  *)
(* all runs, even if the clock stands still or is set back while a run        *)
(* lasts; only a clock that was set back can make the ids of two runs collide *)
(* (common.go:134-136, runner.go:76-79).                                      *)
IdsUnique ==
    \A i, j \in DOMAIN ids :
        i < j /\ [ids[i] EXCEPT !.run = 0] = [ids[j] EXCEPT !.run = 0]
          => ids[i].run # ids[j].run /\ rewound

(* No document panics the program, whose producers do not recover: every      *)
(* genre has conflicts to pick from and every year range something to choose, *)
(* as long as the clock says 1982 or later (common.go:138-140, 164-172).      *)
NeverPanics == ThisYear >= 1982 => at # "panic"

(* What a consumer of the documents may rely on, for all draws: a year lies   *)
(* between the first one of its kind and the present one, also behind the     *)
(* clamp of the boost; a cast names nobody twice; and an ISBN-13 is thirteen  *)
(* digits whose sum, each second one taken three times, is a multiple of ten  *)
(* (common.go:142-196, books.go:65-68).                                       *)
FieldsValid ==
    /\ doc.year # 0 => /\ doc.year <= ThisYear
                       /\ doc.year >= IF doc.kind = "movie" THEN 1980 ELSE 1900
    /\ IsInjective(doc.cast)
    /\ doc.isbn # <<>> =>
          /\ Len(doc.isbn) = 13 /\ ToSet(doc.isbn) \subseteq 0..9
          /\ LET Weighted(sum, i) == sum + (IF i % 2 = 0 THEN 3 ELSE 1) * doc.isbn[i]
             IN  FoldLeftDomain(Weighted, 0, doc.isbn) % 10 = 0
=============================================================================
