-------------------------- MODULE MCMetricTemplate --------------------------
(* Small objects and templates for TLC.                                    *)
EXTENDS MetricTemplate

Kid(key, n) == [key |-> key, node |-> n]

Entries(kind, kids) == [kind |-> kind, kids |-> kids]

\* A map of a map, a list and a leaf, all with kids of several kinds.
Tidy ==
    << Entries("map", <<Kid(<<"a">>, 2), Kid(<<"l">>, 3), Kid(<<"d">>, 4)>>),
       Entries("map", <<Kid(<<"b">>, 5), Kid(<<"c">>, 6)>>),
       Entries("list", <<Kid(<<"0">>, 7), Kid(<<"1">>, 8)>>),
       Entries("leaf", <<>>), Entries("leaf", <<>>), Entries("null", <<>>),
       Entries("leaf", <<>>), Entries("map", <<>>) >>

\* Keys with a slash and without anything: a null, a map and a leaf at one
\* path, and two nodes at the root.
Ambiguous ==
    << Entries("map", <<Kid(<<"a">>, 2), Kid(<<"a", "b">>, 3), Kid(<<>>, 4)>>),
       Entries("map", <<Kid(<<"b">>, 5)>>),
       Entries("map", <<Kid(<<"c">>, 6)>>),
       Entries("leaf", <<>>), Entries("null", <<>>), Entries("leaf", <<>>) >>

WalkedObjects == {Tidy, Ambiguous}

OneObject == {Tidy}

Paths == {<<>>, <<"a">>, <<"a", "b">>, <<"l", "1">>, <<"a", "b", "c">>, <<"x">>}

-----------------------------------------------------------------------------
Node(kind, kids, spec) ==
    [kind |-> kind, kids |-> kids, spec |-> spec, val |-> "plain"]

Map(kids) == Node("map", kids, NoSpec)

ValueOf(src, ptrn, type, default, drop) ==
    [src |-> src, ptrn |-> ptrn, type |-> type, default |-> default,
     drop |-> drop, fits |-> FALSE, broken |-> FALSE]

\* The labels appear twice, as in the builtin template.
Label == ValueOf("label", NoPattern, "str", "", TRUE)

Image == ValueOf("image", NoPattern, "str", "text", FALSE)

Usage == ValueOf("usage", NoPattern, "int", "0", FALSE)

Rx(ptrn) == ValueOf("rx", ptrn, "int", NoText, FALSE)

\* A template with the kids given in its labels, its stats and its first
\* interface, each a node of their own behind the first nine.
Template(labels, stats, iface, extra) ==
    << Map(<<Kid(<<"labels">>, 9), Kid(<<"stats">>, 2)>>),
       Node("list", <<Kid(<<"0">>, 3)>>, NoSpec),
       Map(<<Kid(<<"network">>, 4), Kid(<<"filesystem">>, 7)>> \o stats),
       Map(<<Kid(<<"interfaces">>, 5)>>),
       Node("list", <<Kid(<<"0">>, 6)>>, NoSpec),
       Map(iface),
       Node("list", <<Kid(<<"0">>, 8)>>, NoSpec),
       Map(<<>>),
       Map(labels) >> \o extra

Spec1(spec) == Node("leaf", <<>>, spec)

\* Labels with one source three times, a spec that is a map, and one whose
\* pattern may or may not match beside one that has none.
Good ==
    Template(<<Kid(<<"a">>, 10), Kid(<<"b">>, 11), Kid(<<"c">>, 12),
               Kid(<<"image">>, 13)>>,
             <<Kid(<<"cpu">>, 14)>>,
             <<Kid(<<"rx">>, 15), Kid(<<"in">>, 16)>>,
             << Spec1(Label), Spec1([Label EXCEPT !.drop = FALSE]), Spec1(Label),
                Spec1(Image), Node("map", <<Kid(<<"__tmpl">>, 17)>>, Usage),
                Spec1(Rx("network")), Spec1(Rx(NoPattern)),
                Node("leaf", <<>>, NoSpec) >>)

OneLabel(key, spec) ==
    Template(<<Kid(key, 10)>>, <<>>, <<>>, <<Spec1(spec)>>)

InList ==
    Template(<<Kid(<<"l">>, 10)>>, <<>>, <<>>,
             <<Node("list", <<Kid(<<"0">>, 11)>>, NoSpec), Spec1(Label)>>)

\* The older template of the repository: its network has no interfaces.
Older == [OneLabel(<<"a">>, Label) EXCEPT ![4].kids = <<>>]

AllTemplates ==
    { Good, InList, Older,
      OneLabel(<<"a", "b">>, Label),
      OneLabel(<<"a">>, [Label EXCEPT !.broken = TRUE]),
      OneLabel(<<"a">>, [Label EXCEPT !.type = ""]),
      OneLabel(<<"a">>, [Usage EXCEPT !.default = "text"]),
      OneLabel(<<"a">>, [Usage EXCEPT !.type = "time", !.default = NoText]),
      OneLabel(<<"a">>, [Usage EXCEPT !.type = "time", !.fits = TRUE]) }

\* Walks only.
NoTemplates == {}
=============================================================================
