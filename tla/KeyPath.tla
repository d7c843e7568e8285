------------------------------ MODULE KeyPath ------------------------------
(***************************************************************************)
(* EnvironmentConfig: a config of nested dicts and lists, edited by key    *)
(* paths such as groups[0].nodes[1].name, where what is missing on the way *)
(* is made.  A config is a function from places to what is there: "dict",  *)
(* "list", "none" or a scalar; a place is the sequence of the keys and     *)
(* indexes that lead to it.                                                *)
(***************************************************************************)
EXTENDS Naturals, Sequences, SequencesExt, FiniteSets

CONSTANTS
  Keys,
  Indexes,    \* subset of Nat
  Index,      \* Index[i] is the step of a place that an index is
  Templates,  \* configs that a template may hold
  MaxSegments, MaxNesting, MaxSets

\* The steps of a place are keys and indexes.
PlaceSteps == Keys \cup {Index[i] : i \in Indexes}

\* A tree of dicts, and of lists without gaps.
IsTree(c) ==
  /\ DOMAIN c \subseteq Seq(PlaceSteps) /\ <<>> \in DOMAIN c
  /\ \A q \in DOMAIN c \ {<<>>} :
       /\ Front(q) \in DOMAIN c /\ c[Front(q)] \in {"dict", "list"}
       /\ \A i \in Indexes : Last(q) = Index[i] =>
            \A j \in 0..i : Append(Front(q), Index[j]) \in DOMAIN c

ASSUME KeyPathAssumption ==
  /\ Indexes \subseteq Nat /\ \A i \in Indexes : 0..i \subseteq Indexes
  /\ \A i \in Indexes : Index[i] \notin Keys /\ \A j \in Indexes : Index[i] = Index[j] => i = j
  /\ \A t \in Templates : IsTree(t)
  /\ MaxSegments \in Nat /\ MaxNesting \in Nat

\* A segment of a path is a key with its indexes, or has "[]", on which
\* disassemble_path raises.
Segments ==
  [key : Keys, indexes : SeqOf(Indexes, MaxNesting), valid : {TRUE}]
    \cup [key : Keys, indexes : {<<>>}, valid : {FALSE}]
Paths == SeqOf(Segments, MaxSegments) \ {<<>>}

\* Where the first n indexes lead to, and the first n segments.
At(ix, n) == [k \in 1..n |-> Index[ix[k]]]
Steps(seg, n) == <<seg.key>> \o At(seg.indexes, n)
Places(path) ==
  LET place[n \in 0..Len(path)] ==
        IF n = 0 THEN <<>> ELSE place[n - 1] \o Steps(path[n], Len(path[n].indexes))
  IN  place
Place(path) == Places(path)[Len(path)]

VARIABLES
  settings,  \* config['template']['devops_settings'], or no config
  paths,     \* the segments that are not walked yet
  data,      \* the place that is walked to
  call,      \* "idle", "walk", "set", "raised"
  asked,     \* the path that was asked for, and the settings before
  before,
  sets

keypath == <<settings, paths, data, call, asked, before, sets>>

NoConfig == <<>>

KeyPathInit ==
  /\ settings = NoConfig /\ paths = <<>> /\ data = <<>> /\ call = "idle"
  /\ asked = <<>> /\ before = NoConfig /\ sets = 0

\* load_template, with fix_devops_config around what it read.
LoadTemplate(t) ==
  /\ call = "idle" /\ settings = NoConfig
  /\ settings' = t /\ UNCHANGED <<paths, data, call, asked, before, sets>>

\* set_value_by_keypath; without a config it raises.
SetValueByKeypath(path) ==
  /\ call # "walk" /\ sets < MaxSets
  /\ sets' = sets + 1 /\ asked' = path /\ before' = settings
  /\ paths' = path /\ data' = <<>>
  /\ call' = IF settings = NoConfig THEN "raised" ELSE "walk"
  /\ UNCHANGED settings

PathRaises == call' = "raised" /\ UNCHANGED <<settings, paths, data>>

\* return_obj: lists in each other, padded with None, and a dict in the last.
ReturnObj(ix) ==
  LET Way == {At(ix, d) : d \in 0..Len(ix)}
      Pads == {{Append(At(ix, d - 1), Index[j]) : j \in 0..ix[d]} : d \in 1..Len(ix)}
      Pad == (UNION Pads) \ Way
  IN  [q \in Way \cup Pad |-> IF q \in Pad THEN "none"
                              ELSE IF Len(q) = Len(ix) THEN "dict" ELSE "list"]

\* data[key] = obj, in place of what was there.  Mutant: what was in it stays.
Overlaid(c, at, obj) ==
  LET New == {at \o q : q \in DOMAIN obj}
  IN  [q \in DOMAIN c \cup New |->
         IF q \in New THEN obj[SubSeq(q, Len(at) + 1, Len(q))] ELSE c[q]]
Assigned(c, at, obj) ==
  Overlaid([q \in {r \in DOMAIN c : ~ IsPrefix(at, r)} |-> c[q]], at, obj)
Scalar(v) == [q \in {<<>>} |-> v]

\* The key of a segment and the lists on the way to its n-th index are there.
Walkable(c, seg, n) ==
  \A k \in 1..n : /\ c[data \o Steps(seg, k - 1)] = "list"
                  /\ data \o Steps(seg, k) \in DOMAIN c
Has(c, key) == Append(data, key) \in DOMAIN c

\* One turn of the loop.  What holds the key must be a dict.
Walk(seg, c) ==
  /\ paths' = Tail(paths) /\ data' = data \o Steps(seg, Len(seg.indexes))
  /\ settings' = c /\ UNCHANGED call

WalkSegment ==
  /\ call = "walk" /\ Len(paths) > 1
  /\ LET seg == Head(paths)
         made == Assigned(settings, Append(data, seg.key), ReturnObj(seg.indexes))
     IN  IF ~ seg.valid \/ settings[data] # "dict" THEN PathRaises
         ELSE IF ~ Has(settings, seg.key) THEN Walk(seg, made)
         ELSE IF Walkable(settings, seg, Len(seg.indexes)) THEN Walk(seg, settings)
         ELSE PathRaises
  /\ UNCHANGED <<asked, before, sets>>

\* The last segment, with list_update.
SetLast(v) ==
  /\ call = "walk" /\ Len(paths) = 1
  /\ LET seg == Head(paths)
         made == IF Has(settings, seg.key) THEN settings
                 ELSE Assigned(settings, Append(data, seg.key), ReturnObj(seg.indexes))
     IN  IF ~ seg.valid \/ settings[data] # "dict"
              \/ ~ Walkable(made, seg, Len(seg.indexes)) THEN PathRaises
         ELSE /\ settings' = Assigned(made, data \o Steps(seg, Len(seg.indexes)), Scalar(v))
              /\ call' = "set" /\ UNCHANGED <<paths, data>>
  /\ UNCHANGED <<asked, before, sets>>

KeyPathNext ==
  \/ \E t \in Templates : LoadTemplate(t)
  \/ \E p \in Paths : SetValueByKeypath(p)
  \/ WalkSegment \/ SetLast("v")

-----------------------------------------------------------------------------

\* A call sets the value at its path and leaves every other place of the
\* config as it was, or it raises and, if the path is one, changes nothing
\* at all: nothing is made on the way to an error.  The config stays a tree of
\* dicts and of lists without gaps.
SetsAllOrNothing ==
  LET p == Place(asked)
  IN  /\ call = "set" =>
           /\ settings[p] = "v"
           /\ \A q \in DOMAIN before : ~ IsPrefix(p, q) =>
                q \in DOMAIN settings /\ settings[q] = before[q]
           /\ IsTree(settings)
      /\ call = "raised" /\ (\A i \in DOMAIN asked : asked[i].valid) => settings = before
=============================================================================
