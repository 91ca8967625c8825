--------------------------- MODULE MetricTemplate ---------------------------
(***************************************************************************)
(* Loading a metric template, and what the insertions do with it: the      *)
(* stats, iface and fs objects are cut out of the template, each of the    *)
(* four objects is walked for value specs, which a mapping remembers by    *)
(* their source, and the specs are replaced by their defaults.             *)
(* src/publisher/template.go; src/util/jsonutil.go for specs and defaults. *)
(* Seek is one step here (At): SeekCorrect says that it finds just that.   *)
(*                                                                         *)
(* A node of the template also has a value, and a spec or NoSpec:          *)
(*   src, ptrn  the source, and what stood before "..." in it, or NoPattern*)
(*   type, default, drop   its type, its default or NoText, no_default     *)
(*   fits       of a time: its layout (the option fmt, or none) reads the  *)
(*              default it takes, its own or that of the type              *)
(*   broken     a field that is no string, an option without "="           *)
(***************************************************************************)
EXTENDS JsonWalker

CONSTANTS
    Objects,    \* heaps that are walked for their own sake
    Templates,  \* heaps; the template object is node 1
    NoSpec, NoPattern, NoText

ASSUME ObjectsAssumption == \A h \in Objects \cup Templates : Tree(h)

(* A spec that is well formed has strings in its fields and nothing else.  *)
Decoded(h) ==
    /\ Tree(h)
    /\ \A n \in DOMAIN h :
          /\ h[n] = [kind |-> h[n].kind, kids |-> h[n].kids,
                     spec |-> h[n].spec, val |-> h[n].val]
          /\ h[n].spec # NoSpec /\ ~h[n].spec.broken =>
                \A kid \in ToSet(h[n].kids) : h[kid.node].kind = "leaf"

ASSUME TemplatesAssumption == \A h \in Templates : Decoded(h)

(* The keys that the loader puts in are strings.                            *)
ASSUME KeysAssumption == {"interfaces", "filesystem"} \subseteq STRING

Parts == <<"stats", "docker", "iface", "fs">>

VARIABLES
    phase,    \* "idle", "load", "extract", "defaults", "ready", "panicked"
    part,     \* position in Parts
    roots,    \* the object of each part
    mapping,  \* mapToStats and so on: keys to value specs
    left,     \* keys that applyDefaults has still to visit
    loaded    \* history: the parts as they were cut out

partVars == <<part, roots, mapping, left, loaded>>
vars == <<heap, stack, seekVars, phase, partVars>>

NoMapping == [p \in ToSet(Parts) |-> [x \in {} |-> NoSpec]]

Init ==
    /\ heap \in Objects /\ WalkerInit
    /\ phase = "idle" /\ part = 1 /\ left = {} /\ loaded = heap
    /\ roots = [p \in ToSet(Parts) |-> 1] /\ mapping = NoMapping

(* Before any template is loaded, objects are walked over.                 *)
BeginWalk == phase = "idle" /\ Walk /\ UNCHANGED <<phase, partVars>>

WalkOn == Step /\ UNCHANGED <<phase, partVars>>

(* A template is read and decoded, by this process or by a later one.      *)
LoadTemplateSource ==
    /\ phase \in {"idle", "panicked", "ready"} /\ mode \notin {"seek", "walk"}
    /\ phase' = "load"
    /\ mode' = "idle" /\ goal' = <<>> /\ result' = 0 /\ visited' = <<>>
    /\ heap' \in Templates
    /\ part' = 1 /\ left' = {} /\ loaded' = heap'
    /\ roots' = [p \in ToSet(Parts) |-> 1] /\ mapping' = NoMapping
    /\ UNCHANGED stack

Panic == phase' = "panicked" /\ stack' = <<>> /\ UNCHANGED <<heap, partVars>>

-----------------------------------------------------------------------------
(* Cutting the parts out.                                                  *)

(* What Seek returns: a node at the path, or nil when there is none.       *)
Nowhere == 0

Sought(root, path) ==
    IF At(root, path) = {} THEN {Nowhere} ELSE At(root, path)

Is(n, kind) == n # Nowhere /\ heap[n].kind = kind

FullList(n) == Is(n, "list") /\ heap[n].kids # <<>>

First(n) == heap[n].kids[1].node

EmptyMap == [kind |-> "map", kids |-> <<>>, spec |-> NoSpec, val |-> "plain"]

(* The rest of a list: its entries move up by one.                         *)
Shortened(kids) ==
    [x \in 1 .. Len(kids) - 1 |->
       [key |-> kids[x].key, node |-> kids[x + 1].node]]

(* The entry of a key, in place of one that is there; the entry taken away. *)
EntriesOf(kids, key) == {x \in DOMAIN kids : kids[x].key = key}

Put(kids, key, n) ==
    LET old == EntriesOf(kids, key)
    IN  IF old = {} THEN Append(kids, [key |-> key, node |-> n])
        ELSE [kids EXCEPT ![CHOOSE x \in old : TRUE] = [key |-> key, node |-> n]]

WithoutKey(kids, key) ==
    LET old == EntriesOf(kids, key)
    IN  IF old = {} THEN kids ELSE RemoveAt(kids, CHOOSE x \in old : TRUE)

(* Below stats: a network that is a map, its interfaces and the filesystem *)
(* lists with an entry.                                                    *)
Shape(stats, network, ifaces, fs) ==
    /\ Is(stats, "map") /\ Is(network, "map")
    /\ FullList(ifaces) /\ FullList(fs)

(* The template object gets the shortened list; here the list that was     *)
(* found is shortened, which is the same but for templates with empty keys,*)
(* where the list found may be another than that under "stats".            *)
Cut(list, stats, network) ==
    [heap EXCEPT ![list].kids = Shortened(@),
                 ![network].kids = Put(@, <<"interfaces">>, Len(heap) + 1),
                 ![stats].kids = Put(@, <<"filesystem">>, Len(heap) + 2)]
    \o <<EmptyMap, EmptyMap>>

Divide(list, stats, network, ifaces, fs) ==
    /\ roots' = [stats |-> stats, docker |-> 1,
                 iface |-> First(ifaces), fs |-> First(fs)]
    /\ heap' = Cut(list, stats, network) /\ loaded' = heap'
    /\ phase' = "extract" /\ stack' = Entry(stats, <<>>)
    /\ UNCHANGED <<part, mapping, left>>

(* One of the type assertions or the index fails, or none.                 *)
Split ==
    /\ phase = "load"
    /\ \E list \in Sought(1, <<"stats">>) :
          IF ~Is(1, "map") \/ ~FullList(list) THEN Panic
          ELSE \E network \in Sought(First(list), <<"network">>),
                  ifaces \in Sought(First(list), <<"network", "interfaces">>),
                  fs \in Sought(First(list), <<"filesystem">>) :
                 IF Shape(First(list), network, ifaces, fs)
                 THEN Divide(list, First(list), network, ifaces, fs)
                 ELSE Panic

-----------------------------------------------------------------------------
(* extractMapping.                                                         *)

Current == Parts[part]

SpecOf(n) == heap[n].spec

(* A source is found by its end; <<src, 0>> is the first spec of a source, *)
(* the others have keys of their own (uuids) in its aliases.               *)
Main(src) == <<src, 0>>

ValueSpec(n, target) ==
    [spec |-> SpecOf(n), target |-> target, aliases |-> <<>>]

(* Mutant: a later alias takes the place of the earlier ones.              *)
AliasesReplaced(aliases, alias) == <<alias>>

AliasesWith(aliases, alias) == Append(aliases, alias)

With(m, key, vs) ==
    [x \in DOMAIN m \cup {key} |-> IF x = key THEN vs ELSE m[x]]

Recorded(m, vs) ==
    LET src   == vs.spec.src
        alias == <<src, Cardinality({x \in DOMAIN m : x[1] = src})>>
    IN  IF Main(src) \in DOMAIN m
        THEN With([m EXCEPT ![Main(src)].aliases = AliasesWith(@, alias)], alias, vs)
        ELSE With(m, Main(src), vs)

Extract(j) ==
    /\ phase = "extract" /\ SpecOf(KidNode(j)) # NoSpec
    /\ ~SpecOf(KidNode(j)).broken
    /\ Called(j, IF Is(KidNode(j), "map") THEN "skip" ELSE "nil")
    /\ mapping' = [mapping EXCEPT ![Current] =
                     Recorded(@, ValueSpec(KidNode(j), KidPath(j)))]
    /\ UNCHANGED <<heap, phase, part, roots, left, loaded>>

ExtractPanics(j) ==
    /\ phase = "extract" /\ SpecOf(KidNode(j)) # NoSpec
    /\ SpecOf(KidNode(j)).broken
    /\ Panic

PassBy(j) ==
    /\ phase = "extract" /\ SpecOf(KidNode(j)) = NoSpec
    /\ Called(j, "nil")
    /\ UNCHANGED <<heap, phase, partVars>>

ExtractLeave ==
    phase = "extract" /\ Leave /\ UNCHANGED <<heap, phase, partVars>>

(* The next object, or on to the defaults.                                 *)
ExtractDone ==
    /\ phase = "extract" /\ stack = <<>>
    /\ IF part < Len(Parts)
       THEN /\ part' = part + 1 /\ stack' = Entry(roots[Parts[part + 1]], <<>>)
            /\ UNCHANGED <<phase, left>>
       ELSE /\ part' = 1 /\ phase' = "defaults"
            /\ left' = DOMAIN mapping[Parts[1]]
            /\ UNCHANGED stack
    /\ UNCHANGED <<heap, roots, mapping, loaded>>

-----------------------------------------------------------------------------
(* applyDefaults.                                                          *)

(* What the parsers of ValueProvider take that use no layout, of the texts *)
(* "", "0", "0.0", "false", "stamp" (RFC 3339) and any other; and the      *)
(* default of each type.                                                   *)
Texts == {"", "0", "0.0", "false", "stamp", "text"}

Parsed ==
    [str |-> Texts, int |-> {"0"}, bool |-> {"0", "false"},
     float64 |-> {"0", "0.0"}, ktime |-> {"stamp"}]

Defaults ==
    [str |-> "", int |-> "0", bool |-> "false", float64 |-> "0.0",
     ktime |-> "stamp"]

(* Mutant: the default of a type is not used.                              *)
HasDefaultOwn(s) ==
    \/ s.type = "time" /\ s.fits
    \/ s.type \in DOMAIN Parsed /\ s.default \in Parsed[s.type]

(* GetDefaultOr does not panic.                                            *)
HasDefault(s) ==
    \/ s.type = "time" /\ s.fits
    \/ /\ s.type \in DOMAIN Parsed
       /\ (IF s.default = NoText \/ s.drop THEN Defaults[s.type] ELSE s.default)
             \in Parsed[s.type]

(* filepath.Dir and filepath.Base.                                         *)
Dir(path) == IF path = <<>> THEN <<>> ELSE Front(path)

Base(path) == IF path = <<>> THEN "/" ELSE Last(path)

Leaf(val) == [kind |-> "leaf", kids |-> <<>>, spec |-> NoSpec, val |-> val]

Parents(p, target) == Sought(roots[p], Dir(target))

(* A map gets a value under the last element of the target: in place of    *)
(* what is there, or as a new leaf.                                        *)
Assign(h, n, target, val) ==
    LET old == EntriesOf(h[n].kids, <<Base(target)>>)
    IN  IF old = {}
        THEN Append([h EXCEPT ![n].kids = Put(@, <<Base(target)>>, Len(h) + 1)],
                    Leaf(val))
        ELSE [h EXCEPT ![h[n].kids[CHOOSE x \in old : TRUE].node] = Leaf(val)]

Delete(h, n, target) ==
    [h EXCEPT ![n].kids = WithoutKey(@, <<Base(target)>>)]

(* Mutant: a spec without a default stays where it is.                     *)
DroppedNot(n, vs) == heap

Dropped(n, vs) == Delete(heap, n, vs.target)

ApplyDefault(x) ==
    LET vs == mapping[Current][x] IN
    /\ phase = "defaults" /\ x \in left /\ left' = left \ {x}
    /\ HasDefault(vs.spec)
    /\ \E n \in Parents(Current, vs.target) :
          /\ Is(n, "map")
          /\ heap' = IF vs.spec.drop THEN Dropped(n, vs)
                     ELSE Assign(heap, n, vs.target, "default")
    /\ UNCHANGED <<stack, phase, part, roots, mapping, loaded>>

(* No parser, a default that does not parse, or no map to put it into.     *)
DefaultPanics(x) ==
    LET vs == mapping[Current][x] IN
    /\ phase = "defaults" /\ x \in left
    /\ \/ ~HasDefault(vs.spec)
       \/ \E n \in Parents(Current, vs.target) : ~Is(n, "map")
    /\ Panic

DefaultsDone ==
    /\ phase = "defaults" /\ left = {}
    /\ IF part < Len(Parts)
       THEN /\ part' = part + 1 /\ left' = DOMAIN mapping[Parts[part + 1]]
            /\ UNCHANGED phase
       ELSE phase' = "ready" /\ UNCHANGED <<part, left>>
    /\ UNCHANGED <<heap, stack, roots, mapping, loaded>>

-----------------------------------------------------------------------------
(* A metric is inserted into an object made from the template: all specs   *)
(* of its source whose pattern matches get its value.                      *)

SourcePaths(p, src) ==
    LET main == mapping[p][Main(src)]
    IN  Append(main.aliases, Main(src))

(* Mutant: the pattern is looked at for the first spec only.               *)
HitsAll(p, src, matching) == ToSet(SourcePaths(p, src))

Hits(p, src, matching) ==
    {x \in ToSet(SourcePaths(p, src)) :
       mapping[p][x].spec.ptrn \in matching \cup {NoPattern}}

(* The parents are sought one after the other; the objects made from an    *)
(* ordinary template have one node at each target's parent.                *)
Written(h, p, target) ==
    Assign(h, CHOOSE n \in Parents(p, target) : TRUE, target, "data")

Insert(p, src, matching) ==
    LET targets == {mapping[p][x].target : x \in Hits(p, src, matching)} IN
    /\ phase = "ready" /\ Main(src) \in DOMAIN mapping[p]
    /\ \A t \in targets : \A n \in Parents(p, t) : Is(n, "map")
    /\ heap' = FoldSet(LAMBDA t, h : Written(h, p, t), heap, targets)
    /\ UNCHANGED <<stack, phase, partVars>>

Sources == {x[1] : x \in UNION {DOMAIN mapping[p] : p \in ToSet(Parts)}}

Patterns ==
    UNION {{mapping[p][x].spec.ptrn : x \in DOMAIN mapping[p]}
             : p \in ToSet(Parts)} \ {NoPattern}

Loading ==
    \/ Split
    \/ \E j \in Turns : Extract(j) \/ ExtractPanics(j) \/ PassBy(j)
    \/ ExtractLeave \/ ExtractDone
    \/ \E x \in left : ApplyDefault(x) \/ DefaultPanics(x)
    \/ DefaultsDone
    \/ \E p \in ToSet(Parts), src \in Sources, matching \in SUBSET Patterns :
          Insert(p, src, matching)

Next ==
    \/ BeginWalk \/ WalkOn \/ LoadTemplateSource
    \/ Loading /\ UNCHANGED seekVars

Spec == Init /\ [][Next]_vars

-----------------------------------------------------------------------------
(* Properties.                                                             *)

(* The specs that a part held, with their paths: <<path, spec>>.           *)
SpecsOf(p) ==
    {<<x[1], loaded[x[2]].spec>> :
       x \in {y \in Below(loaded, roots[p], <<>>) : loaded[y[2]].spec # NoSpec}}

(* Ordinary templates: no key has a slash or is empty, so that the entries *)
(* of a map have paths of their own; specs are entries of maps, and a spec *)
(* that is a map holds no other spec.                                      *)
Plain(p) ==
    \A x \in Below(loaded, roots[p], <<>>) :
        /\ x[2] = roots[p] => loaded[x[2]].spec = NoSpec
        /\ \A i, j \in DOMAIN loaded[x[2]].kids :
              loaded[x[2]].kids[i].key = loaded[x[2]].kids[j].key => i = j
        /\ \A kid \in ToSet(loaded[x[2]].kids) :
              /\ Len(kid.key) = 1
              /\ loaded[kid.node].spec # NoSpec =>
                    loaded[x[2]].kind = "map" /\ loaded[x[2]].spec = NoSpec

AllPlain == \A p \in ToSet(Parts) : Plain(p)

(* However the maps are ranged over, every spec of the template can be     *)
(* found by its source, through the aliases of the first one, and the      *)
(* mapping has no entry but for a spec of its part (extractMapping).       *)
AllMapped ==
    phase = "ready" /\ AllPlain =>
        \A p \in ToSet(Parts) :
            /\ SpecsOf(p) = {<<mapping[p][x].target, mapping[p][x].spec>> :
                                x \in DOMAIN mapping[p]}
            /\ SpecsOf(p) = UNION {{<<mapping[p][x].target, mapping[p][x].spec>> :
                                       x \in ToSet(SourcePaths(p, src))}
                                     : src \in {s[2].src : s \in SpecsOf(p)}}
            /\ \A x, y \in DOMAIN mapping[p] :
                  mapping[p][x].target = mapping[p][y].target => x = y

(* The comment on applyDefaults: value specs are replaced with defaults.   *)
(* No spec is left to be served as a value, and every target has a map to  *)
(* be put into, so that no later insertion can panic.                      *)
LoadedClean ==
    phase = "ready" /\ AllPlain =>
        \A p \in ToSet(Parts) :
            /\ \A x \in Below(heap, roots[p], <<>>) : SpecOf(x[2]) = NoSpec
            /\ \A x \in DOMAIN mapping[p] :
                  \A n \in Parents(p, mapping[p][x].target) : Is(n, "map")

(* A template only fails to load for what it says: a part that is missing, *)
(* a spec that is not well formed or has no default that parses, or specs  *)
(* where they cannot be replaced.                                          *)
PanicExplained ==
    phase = "panicked" =>
        \/ roots["stats"] = 1
        \/ ~AllPlain
        \/ \E p \in ToSet(Parts) : \E s \in SpecsOf(p) :
              \/ s[2].broken
              \/ IF s[2].type = "time" THEN ~s[2].fits
                 ELSE \/ s[2].type \notin DOMAIN Parsed
                      \/ s[2].default \notin Parsed[s[2].type] \cup {NoText}

(* A metric changes the values its specs ask for and no others.            *)
ValuesOf(p) ==
    {<<x[1], heap[x[2]].val>> :
       x \in {y \in Below(heap, roots[p], <<>>) : ~IsDir(y[2])}}

InsertLands ==
    [][\A p \in ToSet(Parts), src \in Sources, matching \in SUBSET Patterns :
          AllPlain /\ Insert(p, src, matching) =>
             LET asked == {s[1] : s \in {s \in SpecsOf(p) :
                             /\ s[2].src = src
                             /\ s[2].ptrn \in matching \cup {NoPattern}}}
             IN  ValuesOf(p)' = {x \in ValuesOf(p) : x[1] \notin asked}
                                \cup {<<t, "data">> : t \in asked}]_vars
=============================================================================
