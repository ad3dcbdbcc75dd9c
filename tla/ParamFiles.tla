----------------------------- MODULE ParamFiles -----------------------------
(***************************************************************************)
(* How parameter files become one configuration: deep_merge, overlay_for,   *)
(* load_params and the walk that gives each parameter its provenance, in    *)
(* core/params.py.  A file is given by its paths: it is the function from    *)
(* the keys that lead to a node to the node, a value (a list is one value:   *)
(* it is replaced wholesale), a block or a null.  What the code finds when   *)
(* it descends is said here of a path and of the nodes on the way to it.     *)
(***************************************************************************)
EXTENDS Naturals, Sequences, SequencesExt

Block == "{}"
Null  == "null"

CONSTANT Words   \* the keys and values there are
ASSUME WordsAssumption ==
  {Block, Null, "source", "source_of", "meta", "scenario", "policy", "name",
   "assumed", "synthetic", "published", "observed", "fitted"} \subseteq Words

SOURCES == {"assumed", "synthetic", "published", "observed", "fitted"}

\* SHAPE_KEYS: what decides which keys a mapping has.
ShapeKeys == {"dist"}

Upto(path, n) == SubSeq(path, 1, n)

\* A node is in a block, and what decides a shape is not a block itself.
IsFile(f) ==
  /\ f = [path \in DOMAIN f |-> f[path]] /\ DOMAIN f \subseteq Seq(Words)
  /\ \A path \in DOMAIN f :
       /\ path # <<>> /\ f[path] \in Words
       /\ \A n \in 1..(Len(path) - 1) : Upto(path, n) \in DOMAIN f /\ f[Upto(path, n)] = Block
       /\ Last(path) \in ShapeKeys => f[path] # Block

Empty == [path \in {} |-> Null]

\* Slip: a mapping of another shape is merged like any other.
NeverChangesShape(base, overlay, block) == FALSE

ChangesShape(base, overlay, block) ==
  \E key \in ShapeKeys :
    LET at == Append(block, key)
    IN at \in DOMAIN overlay /\ overlay[at] # (IF at \in DOMAIN base THEN base[at] ELSE Null)

\* Both have a block there, of one shape.
Merges(base, overlay, path) ==
  /\ path \in DOMAIN base /\ base[path] = Block
  /\ path \in DOMAIN overlay /\ overlay[path] = Block
  /\ ~ChangesShape(base, overlay, path)

\* From the first node on the way that does not merge, the overlay's word is taken.
Overlaid(base, overlay, path) ==
  \E n \in 1..Len(path) : /\ Upto(path, n) \in DOMAIN overlay
                          /\ ~Merges(base, overlay, Upto(path, n))

\* Mappings merge key by key, a null removes, every other value is replaced.
DeepMerge(base, overlay) ==
  LET kept == {path \in DOMAIN base : ~Overlaid(base, overlay, path)}
      taken == {path \in DOMAIN overlay :
                  /\ Overlaid(base, overlay, path)
                  /\ overlay[path] = Null => Overlaid(base, overlay, Front(path))}
  IN [path \in kept \cup taken |-> IF path \in taken THEN overlay[path] ELSE base[path]]

\* load_params: the files from left to right, then the overlay built in memory.
Merged(files) == FoldLeft(DeepMerge, Empty, files)
LoadParams(files, overlay) == DeepMerge(Merged(files), overlay)

\* Slip: the swept value keeps the provenance of the value it replaces.
OverlayUnsourced(path, v) ==
  [p \in {Upto(path, n) : n \in 1..Len(path)} |-> IF p = path THEN v ELSE Block]

\* Where a block keeps the source of one key, and its own.
SourceOf(block, key) == block \o <<"source_of", key>>
OwnSource(block) == Append(block, "source")

\* overlay_for: one parameter at one value, marked as the hypothesis it is.
OverlayFor(path, v) ==
  LET mark == SourceOf(Front(path), Last(path))
  IN [p \in {Upto(path, n) : n \in 1..Len(path)} \cup {Front(mark), mark} |->
        IF p = path THEN v ELSE IF p = mark THEN "assumed" ELSE Block]

\* Blocks and parameters, as opposed to what says where they come from.
Plain(path) == \A i \in DOMAIN path : path[i] \notin {"source", "source_of"}

ParamPaths(f) == {path \in DOMAIN f : f[path] # Block /\ Plain(path)}

\* _walk_provenance: what is said nearest to the parameter, of the key before of the
\* block; meta.source is what a block without a source of its own falls back to.
Said(f, path) ==
  {i \in DOMAIN path : \/ SourceOf(Upto(path, i - 1), path[i]) \in DOMAIN f
                       \/ OwnSource(Upto(path, i - 1)) \in DOMAIN f}
SourceAt(f, block, key) ==
  IF SourceOf(block, key) \in DOMAIN f THEN f[SourceOf(block, key)] ELSE f[OwnSource(block)]
Source(f, path) ==
  IF Said(f, path) # {}
  THEN LET i == CHOOSE i \in Said(f, path) : \A j \in Said(f, path) : j <= i
       IN SourceAt(f, Upto(path, i - 1), path[i])
  ELSE IF OwnSource(<<"meta">>) \in DOMAIN f THEN f[OwnSource(<<"meta">>)] ELSE Null

\* Every parameter, with its value and source.
ParamsOf(f) ==
  {[path |-> path, value |-> f[path], source |-> Source(f, path)] : path \in ParamPaths(f)}

\* Refused by the walk: a source that is none, and a source_of that is no mapping or
\* is for a key that is not there.
SourcesMakeSense(f) ==
  \A path \in DOMAIN f : LET block == Front(path) IN
    /\ Last(path) = "source" /\ Plain(block) => f[path] \in SOURCES \cup {Null}
    /\ Last(path) = "source_of" /\ Plain(block) => f[path] \in {Block, Null}
    /\ Len(path) > 1 /\ Last(block) = "source_of" /\ Plain(Front(block)) =>
         f[path] \in SOURCES /\ Append(Front(block), Last(path)) \in DOMAIN f

\* Of what Params requires of a configuration only the two names are used here.
HasNames(f) ==
  \A path \in {<<"policy", "name">>, <<"meta", "scenario">>} :
    path \in DOMAIN f /\ f[path] \notin {Block, Null}

\* And a parameter without a source is refused.
Accepted(f) ==
  /\ SourcesMakeSense(f) /\ HasNames(f)
  /\ \A p \in ParamsOf(f) : p.source \in SOURCES

---------------------------------------------------------------------------
(* Properties, for the stacks of files and values given.                     *)

\* A sweep varies one parameter and nothing else, and says so: every other
\* parameter keeps its value and its provenance, and the swept one is assumed
\* whatever it was before.
SweepsAreHonest(stacks, values) ==
  \A files \in stacks :
    LET config == LoadParams(files, Empty)
    IN Accepted(config) =>
         \A p \in ParamsOf(config), v \in values :
           Last(p.path) \notin ShapeKeys =>
             LET swept == LoadParams(files, OverlayFor(p.path, v))
             IN /\ Accepted(swept)
                /\ ParamsOf(swept) = (ParamsOf(config) \ {p})
                     \cup {[path |-> p.path, value |-> v, source |-> "assumed"]}

\* A distribution is described by one file: swapping a lognormal for a constant
\* leaves neither its median nor its sigma behind, while an amendment that keeps
\* the shape keeps what it does not name.
ShapesAreNotMixed(stacks, overlays) ==
  \A files \in stacks, overlay \in overlays :
    LET before == LoadParams(files, Empty)
        after  == LoadParams(Append(files, overlay), Empty)
        names(block, key) == Append(block, key) \in DOMAIN overlay
        shape(f, block, key) == IF Append(block, key) \in DOMAIN f THEN f[Append(block, key)] ELSE Null
    IN \A block \in DOMAIN overlay :
         (\A n \in 1..Len(block) :
            /\ Upto(block, n) \in DOMAIN before
            /\ before[Upto(block, n)] = Block /\ overlay[Upto(block, n)] = Block
            /\ n < Len(block) => \A key \in ShapeKeys : ~names(Upto(block, n), key)) =>
         \A path \in DOMAIN before \cup DOMAIN overlay :
           Len(block) < Len(path) /\ Upto(path, Len(block)) = block =>
             IF \E key \in ShapeKeys :
                  names(block, key) /\ shape(overlay, block, key) # shape(before, block, key)
             THEN /\ path \in DOMAIN after <=> path \in DOMAIN overlay
                  /\ path \in DOMAIN after => after[path] = overlay[path]
             ELSE (\A n \in (Len(block) + 1)..Len(path) : Upto(path, n) \notin DOMAIN overlay) =>
                    path \in DOMAIN after /\ after[path] = before[path]
=============================================================================
