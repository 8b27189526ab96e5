------------------------- MODULE MCPlatformServices -------------------------
(* The services around the runtime: authoring, deployment, commerce, and the  *)
(* authority to act.  They share no state, so one behaviour exercises one of  *)
(* them.                                                                      *)
EXTENDS ApplicationDeployment, Sequences, TLC

CONSTANTS
  Off, Refused,
  p1, p2,         \* who acts, where two do
  r1, r2

VARIABLES
  part,                                          \* the service this behaviour is about
  studioClock, record, revisions, studioCall, births, intruded,
  quotaClock, usage, desk,
  entitlements,
  usageClock, verifiedAt, events, ingestCall, bill, exports,
  allocation, seen, sequence, records,
  frozen, approvals, signing, grants, verifying, nonces, accepted,
  boundaryAt, lastSeen, usedIds, usedKeys, reserved, boundaryEnded, granted, flight, crossings,
  draft, read, shared, presence, proposals, reviews, applied,
  published, deployed, current, lookup, resolved,
  served, changes, asked, answers, cache, ever, confirmed,
  question,       \* what an algorithm that keeps no state is asked
  bench, last,    \* the workbench
  sessionClock, sessionAhead, membership, login, rows, browser, forwarded, used, ingress, dispatched, members

-----------------------------------------------------------------------------
(* The algorithms that keep no state: a behaviour asks one of them one thing. *)

Upto(S, n) == UNION {[1..k -> S] : k \in 0..n}

-----------------------------------------------------------------------------
Definition == INSTANCE ApplicationDefinition WITH
  FloatingVersions <- {"latest"}, MaxReferences <- 2, Place <- {}, Nowhere <- Off, NoGraph <- Off

Named(id, version) == [id |-> id, version |-> version]
FirstPackage(actions, brand, required) ==
  [identity |-> [publisher |-> "p", name |-> "app"], publisher |-> "p", experiences |-> <<>>,
   actions |-> actions,
   references |-> [k \in Definition!ReferenceKinds |->
                     IF k = "flows" THEN <<Named("main", "1")>> ELSE <<>>],
   brand |-> brand, host |-> [min |-> 1, max |-> Off, required |-> required],
   triggers |-> <<>>, pricing |-> <<>>, settlement |-> <<>>]
Mapped(type, id, version) == [type |-> type, ref |-> Named(id, version)]
Declared(mappings, triggers, pricing) ==
  [mappings |-> mappings, triggers |-> triggers, pricing |-> pricing, settlement |-> <<>>]
Started(type, entry) == [type |-> type, entrypoint |-> entry]

Migrations ==
  [package     : {FirstPackage(a, Named("b", "1"), <<"x">>) : a \in Upto({"pay", "save"}, 2)},
   declaration : {Declared(m, t, p) :
     m \in Upto({Mapped("pay", "pay", "1"), Mapped("pay", "pay", "latest"),
                 Mapped("save", "save", "2"), Mapped("save", "pay", "1")}, 2),
     t \in Upto({Started("api", Named("main", "1")), Started("api", Named("main", "2"))}, 2),
     p \in {<<>>, <<Named("fee", "1")>>, <<Named("fee", "1"), Named("fee", "1")>>}}]

-----------------------------------------------------------------------------
\* Its transport has a state of its own, and no part in these questions.
Federation == INSTANCE ApplicationFederation WITH
  MaxSources <- 3, MaxPerSource <- 2, MaxTotal <- 3, Missing <- Off, SourceId <- {}, Cursor <- {},
  NoCursor <- Off, Content <- {}, Limit <- 0, Unknown <- Off, MaxChanges <- 0, served <- Off,
  changes <- 0, asked <- Off, answers <- {}, cache <- Off, ever <- {}, confirmed <- {}

SourceOf(id, applications) == [sourceId |-> id, applications |-> applications]
Offered == {Federation!Envelope(1, 1, "f", "x", "d", TRUE), Federation!Envelope(1, 1, "f", "y", "d", TRUE),
            Federation!Envelope(1, 1, "g", "x", "e", TRUE), Federation!Envelope(2, 1, "f", "x", "d", TRUE),
            Federation!Envelope(1, 2, "f", "x", "d", FALSE)}
Snapshots ==
  Upto({SourceOf(id, a) : id \in 1..2, a \in Upto(Offered, 2)}, 2) \cup
  [1..3 -> {SourceOf(id, <<e>>) : id \in 1..3, e \in {x \in Offered : x.first = "f" /\ x.id = 1}}]

Catalogue == SourceOf(1, <<Federation!Envelope(1, 1, "f", "x", "d", TRUE)>>)
Key(revision) == [source |-> 1, publisher |-> "p", id |-> "k", revision |-> revision]
Signed(evidence) == [evidence EXCEPT !.signed = [trust |-> Key(1), of |-> evidence]]
Attestations ==
  [trust    : {Federation!Trust(Key(1), f, t, r) : f \in 0..1, t \in 1..4, r \in {Off, 3}},
   evidence : {Signed(Federation!Attestation(k, i, x, d, Off)) :
                 k \in {Key(1), Key(2)}, i \in 0..2, x \in 1..4, d \in {Catalogue, SourceOf(1, <<>>)}},
   now : 0..4]

-----------------------------------------------------------------------------
Identity == INSTANCE IdentityDelegation WITH Missing <- Off, MaxDepth <- 2, DefaultSkew <- 1

Person(id)  == Identity!Principal("user", id, "o")
InO(env)  == Identity!Scope("o", env)
Granted(id, parent, from, to, revoked, expires) ==
  [id |-> id, parent |-> parent, delegator |-> Person(from), delegate |-> Person(to),
   scope |-> InO("e"), audience |-> "h", from |-> 0, expires |-> expires, revoked |-> revoked]
Grants == {Granted("g", Off, "a", "b", Off, 3), Granted("h", "g", "b", "c", Off, 3),
           Granted("h", "g", "b", "c", 1, 3), Granted("h", Off, "b", "c", Off, 3),
           Granted("h", "g", "b", "a", Off, 3), Granted("g", Off, "a", "c", Off, 1),
           [Granted("h", "g", "b", "c", Off, 3) EXCEPT !.scope = InO("f")],
           [Granted("g", Off, "a", "b", Off, 3) EXCEPT !.audience = "x"]}
Delegations == [to : {Person("a"), Person("b"), Person("c")}, grants : Upto(Grants, 2), now : 0..2]

Published(kid, alg, key) == [kid |-> kid, alg |-> alg, use |-> Off, key |-> key]
Hosts ==
  [configuration : [issuer : {"i"}, jwksUri : {"u"}, audience : {"h"}, algorithms : {{"RS256"}},
                    skew : {Off, 2}, maxAge : {Off, 1}],
   metadata   : {[issuer |-> "i", jwksUri |-> "u"]},
   keys       : {<<Published("k", Off, "1"), Published("l", Off, "2")>>, <<Published("k", "ES256", "1")>>},
   token      : [kid : {"k"}, alg : {"RS256"}, signedBy : {"1"}, issuer : {"i"}, subject : {"s"},
                 audience : {{"h"}, {"h", "x"}}, party : {Off, "h"}, expires : {1, 3},
                 issued : {Off, 0, 2}, notBefore : {Off, 2}],
   membership : [principal : {Person("a")}, scope : {InO("e")}, issuer : {"i"}, subject : {"s"},
                 active : {TRUE}, expires : {Off, 3}, revision : {1}],
   binding    : [audience : {"h"}, party : {"h"}, workload : {Person("b")}],
   grants     : {<<>>, <<Granted("g", Off, "a", "b", 3, 4)>>, <<Granted("g", Off, "a", "b", Off, 2)>>}]

-----------------------------------------------------------------------------
\* Its resolver has a state of its own, and no part in these questions.
Packs == INSTANCE ExperienceResolver WITH
  Missing <- Off, MaxArtifacts <- 2, MaxEntrypoints <- 1, MaxManifests <- 3, MaxListings <- 2,
  MaxMatches <- 2, MaxImplementations <- 1, MaxCapabilities <- 1, Call <- {}, Instance <- {},
  Deployment <- {}, Registry <- <<>>, Host <- Off, Target <- {}, Requirement <- {}, MaxInstances <- 0,
  mounted <- Off, pending <- Off, calls <- Off, disposed <- Off

Artifact(id, role, mediaType) == [id |-> id, role |-> role, mediaType |-> mediaType]
Page == Artifact("home", "studio-publication", "application/json")
Logo == Artifact("logo", "asset", "image/png")
Packed(id, version, tags) ==
  [id |-> id, version |-> version, namespace |-> "p", publisher |-> "p", tags |-> tags,
   words |-> {"w"}, min |-> 1, max |-> Off, artifacts |-> <<Page, Logo>>, entrypoints |-> <<"home">>]
Whole == {Packed(1, 1, <<"t">>), Packed(1, 2, <<>>), Packed(2, 1, <<"t", "u">>)}
Broken ==
  LET pack == Packed(3, 1, <<>>)
  IN  {[pack EXCEPT !.tags = <<"t", "t">>], [pack EXCEPT !.publisher = "q"], [pack EXCEPT !.min = 2, !.max = 1],
       [pack EXCEPT !.artifacts = <<Page, Page>>], [pack EXCEPT !.artifacts = <<Page, Artifact("logo", "asset", "text/html")>>],
       [pack EXCEPT !.entrypoints = <<"logo">>], [pack EXCEPT !.entrypoints = <<>>]}
Listed == {[id |-> i, version |-> v] : i \in 1..2, v \in 1..2}
Catalogues ==
  [packs    : Upto(Whole, 3) \cup {<<x, y>> : x \in Whole \cup Broken, y \in Broken},
   listings : Upto(Listed, 2),
   query    : [publisher : {"p"}, tag : {Off, "t"}, text : {"w"}, limit : {Off, 1, 3}]]

-----------------------------------------------------------------------------
Supply == INSTANCE CapabilitySupply WITH
  Missing <- Off, FloatingVersions <- {0}, MaxSources <- 2, MaxPerSource <- 2, MaxTotal <- 3,
  MaxContexts <- 2, MaxBindings <- 2, MaxScopes <- 2, MaxItems <- 2,
  FailoverReasons <- {"timeout", "unavailable"}, ItemKinds <- {"fact"},
  ForbiddenSegments <- {"proto"}, ForbiddenKeys <- {"token"}, IndexOf <- [zero |-> 0, one |-> 1],
  Instants <- 1..6

Exact(id) == [id |-> id, version |-> 1]
Asking(id, publisher) ==
  [id |-> id, version |-> 1, namespace |-> "p", publisher |-> publisher, input |-> Off, output |-> Exact(9),
   contexts |-> <<>>, kind |-> "query", action |-> Off]
Bound(id, capability, provider, location) ==
  [ref |-> Exact(id), capability |-> Exact(capability), provider |-> provider, location |-> location]
Supplied == {[capability |-> Asking(1, "p"), binding |-> Bound(b[1], 1, b[1], b[2])] :
               b \in {<<1, Off>>, <<1, 1>>, <<2, 1>>}} \cup
            {[capability |-> Asking(2, "p"), binding |-> Bound(3, 2, 1, 1)],
             [capability |-> [Asking(1, "p") EXCEPT !.input = Exact(8)], binding |-> Bound(3, 1, 1, 1)],
             [capability |-> [Asking(1, "p") EXCEPT !.kind = "action", !.action = 7], binding |-> Bound(1, 1, 1, 1)]}
Reports == {<<[id |-> i, supplies |-> s], [id |-> 1, supplies |-> t]>> :
              i \in {2}, s \in Upto(Supplied, 2), t \in Upto(Supplied, 2)}
Supplies == [sources : Reports,
             query : {[capability |-> Exact(1), provider |-> a[1], location |-> a[2]] :
                        a \in {<<Off, Off>>, <<1, Off>>, <<Off, 1>>}}]

Offer(binding, scope, until, cost) ==
  [binding |-> Exact(binding), trust |-> [provider |-> binding, scope |-> scope, until |-> until],
   availability |-> 2, latency |-> 2, currency |-> "EUR", cost |-> cost]
Located(b) == [capability |-> Asking(1, "p"), binding |-> Bound(b, 1, b, 1)]
Routes ==
  [sources : {<<[id |-> 1, supplies |-> <<Located(1), Located(2)>>]>>,
              <<[id |-> 1, supplies |-> <<Located(1)>>], [id |-> 2, supplies |-> <<Located(2), Located(1)>>]>>,
              <<[id |-> 1, supplies |-> <<Located(2)>>], [id |-> 2, supplies |-> <<Located(1)>>]>>},
   policy  : {[capability |-> Exact(1), order |-> o, locations |-> <<1>>, reasons |-> r,
               availability |-> 1, latency |-> 2, currency |-> "EUR", cost |-> 1] :
                o \in {<<Exact(1)>>, <<Exact(2), Exact(1)>>, <<Exact(1), Exact(2)>>, <<Exact(1), Exact(1)>>},
                r \in {<<"timeout">>, <<"unavailable", "timeout">>}},
   offers  : Upto({Offer(1, "s", u, c) : u \in {3, 5}, c \in 1..2} \cup {Offer(2, s, 4, 1) : s \in {"s", "x"}}, 3),
   now     : {1, 3}]

InEnvironment(e) == [organization |-> "o", environment |-> e]
Secret(e) == [key |-> "k", environment |-> e]
Connector(requires) ==
  [id |-> "c", provider |-> 1, profiles |-> [main |-> {"read", "write"}],
   operations |-> {[id |-> "get", profile |-> "main", requires |-> {"read"}, reads |-> TRUE],
                   [id |-> "put", profile |-> "main", requires |-> requires, reads |-> FALSE]}]
Operated(operation, kind, target) == [operation |-> operation, kind |-> kind, target |-> target]
Connections ==
  [raw : {[id |-> "n", provider |-> 1, connector |-> "c", scope |-> InEnvironment("e"), secret |-> Secret("e"),
           profile |-> "main", granted |-> g, state |-> "pending", expires |-> x, bindings |-> b] :
            g \in {<<"read">>, <<"write", "read">>}, x \in {Off, 3, 5},
            b \in {<<Operated("get", "query", Exact(1)), Operated("put", k, Exact(4))>> : k \in {"query", "action"}}
                  \cup {<<Operated("put", "action", Exact(4))>>}},
   connector : {Connector({"write"}), Connector({})},
   request : {[action |-> Exact(a), operation |-> o, behavior |-> [freshness |-> f, maxAge |-> 1]] :
                a \in {1, 4}, o \in {"get", "put"}, f \in {"bounded-age", "exact-version"}},
   environment : {[scope |-> InEnvironment(e), secret |-> Secret(e), trust |-> t, evidence |-> 1] :
                    e \in {"e", "f"}, t \in {"trusted"}},
   evidence : {[id |-> 1, connection |-> "n", provider |-> 1, scope |-> InEnvironment("e"), secret |-> Secret("e"),
                health |-> h, checked |-> c, issued |-> 1, expires |-> 5, revoked |-> r] :
                 h \in {"healthy", "degraded"}, c \in {1, 2}, r \in {Off, 3}},
   now : 1..3]

Told(id, type, kinds) ==
  [id |-> id, type |-> Exact(type),
   items |-> [k \in DOMAIN kinds |-> [id |-> k, kind |-> kinds[k], type |-> Off, provenance |-> <<>>]]]
Invocations ==
  [capability : {[Asking(1, publisher) EXCEPT !.contexts = c, !.kind = k,
                    !.action = IF k = "action" THEN Exact(7) ELSE Off] :
                   publisher \in {"p", "q"}, k \in {"query", "action"},
                   c \in {<<>>, <<Exact(5)>>, <<Exact(6), Exact(5)>>, <<Exact(5), Exact(5)>>}},
   binding : {Bound(1, 1, 1, Off), Bound(1, 2, 1, 1)},
   request : {[principal |-> [organization |-> o], scope |-> InEnvironment("e"), input |-> i, contexts |-> c] :
                o \in {"o", "x"}, i \in {Off, Exact(8)},
                c \in Upto({Told(1, 5, <<"fact">>), Told(2, 5, <<>>), Told(1, 6, <<"fact", "fact">>),
                            Told(2, 6, <<"mood">>)}, 2)},
   result : {[outcome |-> "success", output |-> Exact(9)], [outcome |-> "success", output |-> Off],
             [outcome |-> "empty"], Off}]

Leaf(is) == [kind |-> "value", is |-> is]
Data(state, items) ==
  [kind |-> "object", fields |-> [state |-> Leaf(state), lines |-> [kind |-> "array", items |-> items]]]
Expecting(path, operator, is) == [path |-> path, operator |-> operator, value |-> Leaf(is)]
Thing(id) == [provider |-> "g", id |-> id]
Numbered(n) == [kind |-> "revision", value |-> n]
Verdicts ==
  [expectation : {[of |-> Thing("t"), version |-> v, digest |-> Off, assertions |-> a] :
                    v \in {Off, Numbered(1)},
                    a \in Upto({Expecting(<<"state">>, "equals", "open"), Expecting(<<"lines", "one">>, "equals", "b"),
                                Expecting(<<"lines", "one">>, "absent", "b"), Expecting(<<"state", "zero">>, "absent", "b"),
                                Expecting(<<"proto">>, "absent", "b")}, 3)},
   observation : {Off} \cup {[of |-> Thing(t), version |-> Numbered(n), digest |-> "d", data |-> Data(s, i)] :
                               t \in {"t", "u"}, n \in 1..2, s \in {"open", "shut"},
                               i \in {<<Leaf("a")>>, <<Leaf("a"), Leaf("b")>>}}]

-----------------------------------------------------------------------------
\* Studio documents, and the workbench; it keeps a state, of its own part.
From(kind, path) == [kind |-> kind, path |-> path, value |-> Off]
Text(value)      == [type |-> "string", value |-> value]
Literal(value)   == [kind |-> "literal", path |-> Off, value |-> value]
Lines            == From("domain", "lines")
Unset            == [key \in {} |-> Off]
Labelled(text)   == [label |-> Text(text)]
Field(key, required) == [key |-> key, type |-> "string", required |-> required, options |-> Off]
Prop(key, type, required) ==
  [key |-> key, type |-> type, required |-> required, bindable |-> TRUE,
   options |-> IF type = "enum" THEN <<"low", "high">> ELSE Off]
ListComponent ==
  [ref |-> "list", kind |-> "layout", props |-> <<>>, slots |-> <<"rows">>, events |-> <<>>]
TextComponent(props) ==
  [ref |-> "text", kind |-> "content", slots |-> <<>>, props |-> props,
   events |-> <<[name |-> "pick", payload |-> <<Field("who", FALSE), Field("what", TRUE)>>]>>]
Palette(required) ==
  <<ListComponent, TextComponent(<<Prop("label", "string", required), Prop("tone", "enum", FALSE)>>)>>
StudioDesk(required) ==
  [catalog |-> Palette(required), actions |-> {"open", "close"},
   sources |-> <<[kind |-> "state", path |-> "name", type |-> "string"],
                 [kind |-> "domain", path |-> "lines", type |-> "array"],
                 [kind |-> "scope", path |-> "item.name", type |-> "string"]>>]

Sheet(id, order, repeat) ==
  [id |-> id, component |-> "list", order |-> order, props |-> Unset,
   parent |-> Off, slot |-> Off, repeat |-> repeat]
Row(id, parent, order, props) ==
  [id |-> id, component |-> "text", order |-> order, props |-> props,
   parent |-> parent, slot |-> IF parent = Off THEN Off ELSE "rows", repeat |-> Off]
Shown(id, nodes) == [id |-> id, nodes |-> nodes]
Bind(view, node, source) == [view |-> view, node |-> node, prop |-> "label", source |-> source]
Raise(node, routes, payload) ==
  [view |-> "main", node |-> node, event |-> "pick", action |-> "open", routes |-> routes, payload |-> payload]
Goes(outcome, view) == [outcome |-> outcome, view |-> view]
Fill(key, source) == [key |-> key, source |-> source]
Written(views, bindings, interactions) ==
  [entry |-> "main", views |-> views, bindings |-> bindings, interactions |-> interactions]

NextView == Shown("next", <<Row("a", Off, 0, Labelled("x"))>>)
Outlines ==
  {<<Sheet("root", 0, r), Row("b", p, o, x), Row("c", "root", 1, Labelled("x"))>> :
     r \in {Off, Lines, From("scope", "item.name")}, p \in {Off, "root", "b"}, o \in 0..2, x \in {Unset, Labelled("x")}}
Readable == {From("state", "name"), Lines, From("scope", "item.name"), From("scope", "name"), From("state", "else")}
Parses ==
  {Written(v, b, i) :
     v \in {<<Shown("main", t)>> : t \in Outlines} \cup {<<Shown("main", t), NextView>> : t \in Outlines}
           \cup {<<Shown(id, <<Row("b", Off, 0, Unset)>>), NextView>> : id \in {"next", "else"}},
     b \in {<<>>} \cup {<<Bind("main", "b", s)>> : s \in Readable}
           \cup {<<Bind("main", n, From("scope", "item.name")), Bind("main", "b", From("state", "name"))>> : n \in {"b", "c"}},
     i \in {<<>>} \cup {<<Raise("b", r, p)>> :
              r \in {<<>>, <<Goes("success", "next")>>, <<Goes("error", "next"), Goes("error", "main")>>},
              p \in {Off, <<Fill("who", From("scope", "item.name"))>>, <<Fill("what", Literal(Text("x")))>>,
                     <<Fill("what", Literal(Text("x"))), Fill("what", From("state", "name"))>>}}}

Sketches ==
  {Written(<<Shown("main", <<Sheet("root", 0, r), Row("c", "root", 2, Labelled("x")), Row("b", "root", 0, x)>>), NextView>>, b, i) :
     r \in {Off, Lines}, x \in {Unset, Labelled("x")},
     b \in {<<>>, <<Bind("main", "b", From("scope", "item.name"))>>, <<Bind("main", "b", From("state", "name"))>>,
            <<Bind("main", "b", From("scope", "item.name")), Bind("next", "a", From("state", "name"))>>},
     i \in {<<>>} \cup {<<Raise("b", <<Goes("success", "next")>>, p), Raise("c", <<>>, Off)>> :
              p \in {Off, <<Fill("what", From("scope", "item.name")), Fill("who", Literal(Text("x")))>>}}}
Wish(kind, node, source, outcome, target) ==
  [kind |-> kind, view |-> "main", node |-> node, prop |-> "label", source |-> source, event |-> "pick",
   key |-> "what", action |-> "close", outcome |-> outcome, target |-> target]
Wishes ==
  {Wish(k, n, s, Off, Off) : k \in {"bind", "map"}, n \in {"b", "root"}, s \in Readable \cup {Literal(Text("x"))}}
    \cup {Wish("repeat", "root", s, Off, Off) : s \in Readable}
    \cup {Wish(k, n, Off, Off, Off) : k \in {"unbind", "single", "unmap", "act", "silence"}, n \in {"b", "root"}}
    \cup {Wish("route", n, Off, o, t) : n \in {"b", "c"}, o \in {"success", "error"}, t \in {"main", "next", "else"}}
    \cup {Wish("unroute", "b", Off, "success", Off)}

Placed(type, id, props, items) ==
  [type |-> type, id |-> id, props |-> props, slots |-> IF type = "list" THEN [rows |-> items] ELSE Unset, locked |-> {}]
ListItem(id, items) == Placed("list", id, Unset, items)
TextItem(id)       == Placed("text", id, Labelled("y"), <<>>)
Tree(items) == [foreign |-> FALSE, content |-> items]
Changes ==
  {[data |-> Tree(<<ListItem("vira~root", items)>>), host |-> [e \in {"x~1", "x~2", "vira~root"} |-> IF e = "x~1" THEN i ELSE "d"]] :
     items \in {<<>>, <<TextItem("b")>>, <<TextItem("x~1")>>, <<TextItem("b"), TextItem("x~1")>>, <<TextItem("x~2"), TextItem("b")>>,
               <<TextItem("b"), TextItem("x~1"), TextItem("x~2")>>, <<TextItem("b"), TextItem("b")>>, <<TextItem("root")>>,
               <<ListItem("x~1", <<TextItem("b")>>)>>, <<TextItem("b"), ListItem("c", <<TextItem("x~2")>>)>>},
     i \in {"b", "c", "d"}}

\* b reads the item of the list that repeats around it.
BenchDocument ==
  Written(<<Shown("main", <<Sheet("root", 0, Lines), Sheet("c", 1, Lines), Row("b", "c", 0, Unset)>>), NextView>>,
          <<Bind("main", "b", From("scope", "item.name"))>>, <<Raise("b", <<>>, <<Fill("what", From("scope", "item.name"))>>)>>)
BoundItem == Placed("text", "b", Unset, <<>>)
BenchTrees ==
  {Tree(items) : items \in
     {<<ListItem("vira~root", <<BoundItem>>), ListItem("c", <<>>)>>, <<ListItem("vira~root", <<>>), ListItem("c", <<BoundItem>>)>>,
      <<ListItem("vira~root", <<BoundItem>>)>>,
      <<ListItem("vira~root", <<BoundItem, TextItem("x~1")>>)>>}}
BenchEdits ==
  {Wish("repeat", "c", Lines, Off, Off),
   Wish("route", "b", Off, "success", "next")}

DesignOptions == [components : {Off, {"text"}, {"list"}}, palette : {Off, <<"red">>, <<>>}, gradient : BOOLEAN]
Styled(props) == Written(<<Shown("main", <<Row("b", Off, 0, props)>>)>>, <<>>, <<>>)
Number(value) == [type |-> "number", value |-> value]
Styles ==
  {[ink |-> i, back |-> b, size |-> s, align |-> Text("left")] :
     i \in {Text("red"), Text("blue"), Text("cat")}, b \in {Text("solid"), Text("blend")}, s \in {Number("1"), Number("9"), Text("1")}}
    \cup {[back |-> Text("blend"), from |-> Text("red"), to |-> t] : t \in {Text("blue"), Text("red")}}
    \cup {[back |-> Text("blend"), from |-> Text("red")]}
OwnPalettes ==
  {<<ListComponent, TextComponent(<<>>)>>, <<ListComponent, TextComponent(<<Prop("ink", "string", FALSE)>>)>>}

Made(component, web, ios) == [component |-> component, on |-> [web |-> web, ios |-> ios]]
BrandDocument == Styled(Labelled("x"))
ListDocument  == Written(<<Shown("main", <<Sheet("root", 0, Off), Row("b", "root", 0, Labelled("x"))>>)>>, <<>>, <<>>)
Template(id, recipe, document) == [id |-> id, recipe |-> recipe, document |-> document]
Brands ==
  {[package |-> [brand |-> "v", brandOf |-> of, catalog |-> c, sources |-> StudioDesk(TRUE).sources,
                 actions |-> {"open"}, templates |-> t],
    implementations |-> i, recipes |-> {"recipe"}] :
     of \in {"v", "other"}, c \in {Palette(TRUE), <<TextComponent(<<Prop("label", "string", TRUE), Prop("id", "string", FALSE)>>), ListComponent>>},
     t \in {<<Template(1, "recipe", BrandDocument), Template(2, "recipe", ListDocument)>>, <<Template(1, "other", ListDocument)>>,
            <<Template(1, "recipe", BrandDocument), Template(1, "recipe", ListDocument)>>,
            <<Template(1, "recipe", [ListDocument EXCEPT !.interactions = <<Raise("b", <<>>, Off)>>])>>,
            <<Template(1, "recipe", [ListDocument EXCEPT !.bindings = <<Bind("main", "b", From("scope", "item.name"))>>])>>},
     i \in {<<Made("text", "w", "i"), Made("list", "w", "i")>>, <<Made("list", "w", "i2"), Made("text", "w", "i")>>,
            <<Made("text", "w", "i")>>}}
BrandHosts ==
  {<<[platform |-> "web", implementations |-> {"w"}], [platform |-> p, implementations |-> i]>> :
     p \in {"web", "ios"}, i \in {{"i"}, {"i", "i2"}}}

Documents == INSTANCE StudioWorkbench WITH
  Missing <- Off, MaxViews <- 3, MaxNodes <- 4, MaxBindings <- 2, MaxInteractions <- 2, MaxPayload <- 2,
  MaxSources <- 4, MaxFields <- 8, Paths <- {"name", "lines", "item.name", "semantic"}, ScopePaths <- {"item.name"},
  Placeholder <- "semantic", Segments <- {"main", "next", "a", "b", "c", "d", "e", "root"}, AliasOf <- [root |-> "vira~root"],
  ReservedFields <- {"id", "puck"}, Platforms <- {"web", "ios"}, MaxTemplates <- 2, Colors <- {"red", "blue"},
  ColorKeys <- {"ink", "from", "to"}, ModeKey <- "back", Gradient <- "blend", GradientKeys <- {"from", "to"},
  Bounds <- [size |-> {"1"}], OptionsOf <- [align |-> <<"left", "right">>],
  Desk <- StudioDesk(TRUE), Opening <- {BenchDocument}, Edits <- BenchEdits,
  Replacements <- {[Written(<<NextView>>, <<>>, <<>>) EXCEPT !.entry = "next"]},
  ViewIds <- {"main", "next"}, Roots <- {[id |-> "e", component |-> "list"]},
  Trees <- BenchTrees, Hosts <- {[e \in {"x~1", "vira~root"} |-> IF e = "x~1" THEN i ELSE "e"] : i \in {"d"}}
FirstSession ==
  Documents!OpenAuthoring(
    Written(<<Shown("main", <<Sheet("root", 0, Lines), Row("b", "root", 0, Labelled("x"))>>), NextView>>,
            <<>>, <<Raise("b", <<>>, Off)>>), Palette(TRUE), "main")
Fresh == {[component |-> k, id |-> n] : k \in 1..2, n \in {"b", "d", "root"}}
EditorDocuments == Sketches \cup {d \in Parses : d.bindings = <<>> /\ Len(d.views) = 2 /\ d.interactions = <<>>}

DocumentParts == {"document", "edit", "editor", "authoring", "design", "brand"}
DocumentQuestions ==
  CASE part = "document"  -> Parses
    [] part = "edit"      -> [document : Sketches, desk : {StudioDesk(TRUE)}, edit : Wishes] \cup
         [document : {d \in Sketches : d.interactions = <<>>}, desk : {StudioDesk(FALSE)}, edit : Wishes]
    [] part = "editor"    -> [document : EditorDocuments, catalog : {Palette(r) : r \in BOOLEAN}, fresh : Fresh]
    [] part = "authoring" -> [1..2 -> Changes]
    [] part = "design"    -> [catalog : OwnPalettes, options : DesignOptions, style : Styles]
    [] part = "brand"     -> [brand : Brands, hosts : BrandHosts, base : {Off, BrandDocument},
                              candidate : {BrandDocument, ListDocument, BenchDocument}]
WrittenAnswersAreSound ==
  /\ part = "document" => Documents!ParserTellsTheDocument(question)
  /\ part = "edit" => /\ Documents!EditsKeepTheRest(question.document, question.desk, question.edit)
                      /\ Documents!OffersAreTaken(question.document, question.desk, question.edit)
DrawnAnswersAreSound ==
  /\ part = "editor" => Documents!EditorGivesBack(question.document, question.catalog, "main",
                          question.catalog[question.fresh.component], question.fresh.id)
  /\ part = "authoring" => Documents!IdentitiesAreKept(FirstSession, question)
  /\ part = "design" => Documents!DesignIsNotLost(question.catalog, question.options, Styled(question.style))
  /\ part = "brand" => Documents!BrandRuns(question.brand, question.hosts, question.base, question.candidate)
  /\ part = "workbench" => Documents!BenchIsSound

-----------------------------------------------------------------------------
Questions == {"migration", "federation", "attestation", "delegation", "host", "catalogue",
              "supply", "route", "connection", "invocation", "verdict"} \cup DocumentParts

QuestionInit ==
  \/ part = "migration" /\ question \in Migrations
  \/ part = "federation" /\ question \in Snapshots
  \/ part = "attestation" /\ question \in Attestations
  \/ part = "delegation" /\ question \in Delegations
  \/ part = "host" /\ question \in [host : Hosts, now : 0..4]
  \/ part = "catalogue" /\ question \in Catalogues
  \/ part = "supply" /\ question \in Supplies
  \/ part = "route" /\ question \in Routes
  \/ part = "connection" /\ question \in Connections
  \/ part = "invocation" /\ question \in Invocations
  \/ part = "verdict" /\ question \in Verdicts
  \/ part \in DocumentParts /\ question \in DocumentQuestions
  \/ part \notin Questions /\ question = "none"
WorkbenchInit ==
  \/ part = "workbench" /\ Documents!Init
  \/ part # "workbench" /\ bench = Off /\ last = "none"

FederationAnswersAreSound ==
  /\ part = "federation" => Federation!FederationIsOne(question, <<1, 1>>)
  /\ part = "attestation" =>
       Federation!AcceptedStaysGood(Catalogue, question.trust, question.evidence, question.now)
IdentityAnswersAreSound ==
  /\ part = "delegation" =>
       Identity!DelegationIsAPath(Person("a"), question.to, InO("e"), "h", question.grants, {}, question.now)
  /\ part = "host" => Identity!HostUntilTheEnd(question.host, question.now)
ApplicationAnswersAreSound ==
  /\ part = "migration" => Definition!MigrationRoundTrips(question.package, question.declaration)
  /\ part = "catalogue" =>
       /\ Packs!RegistryIsCanonical(question.packs)
       /\ Packs!MarketIsFaithful(question.packs, question.listings, question.query)
  /\ part = "supply" => Supply!SupplyIsWhatSourcesSay(question.sources, question.query)
  /\ part = "route" =>
       Supply!RouteKeepsItsTerms(question.sources, [capability |-> Exact(1), provider |-> Off, location |-> Off],
                                 question.policy, question.offers, question.now)
  /\ part = "connection" =>
       Supply!SupplyLastsUntilItSays(question.raw, question.connector, question.request,
                                     question.environment, question.evidence, question.now)
  /\ part = "invocation" =>
       Supply!InvocationIsTyped(question.capability, question.binding, question.request, question.result)
  /\ part = "verdict" => Supply!VerdictIsEarned(question.expectation, question.observation)

-----------------------------------------------------------------------------
(* The services that keep a state. *)

Studio == INSTANCE StudioLifecycle WITH
  Author <- {p1, p2}, Document <- {"x", "y"}, Publishable <- {"x", "y"},
  MaxVersion <- 3, MaxBirths <- 2, MaxTime <- 1,
  clock <- studioClock, call <- studioCall

Rates == [m |-> [basis |-> "used", amount |-> 2], n |-> [basis |-> "used", amount |-> 1]]
Budget == [budget |-> 7, currency |-> "EUR",
           plan |-> [fixed |-> 1, currency |-> "EUR", rates |-> Rates]]

Selectors == [principal : {Nil, "u"}, capability : {Nil, "c"}, project : {Nil, "p"},
              environment : {Nil, "e"}, location : {Nil, "l"}]

Access == INSTANCE CommercialAccess WITH
  Consumer <- {p1, p2}, Length <- [d \in {"utc-day"} |-> 2],
  Window <- [m |-> "utc-day", n |-> "lifetime"], Limit <- [m |-> 2, n |-> Nil],
  Policy <- Budget, Proposal <- {1, 2}, MaxUsage <- 2, MaxTime <- 2, MaxSafe <- 8,
  MaxRecords <- 2, Select <- Selectors, Metered <- {"m"}, MaxGrants <- 2,
  Terms <- {[limits |-> [m |-> 1]], [limits |-> [x |-> 1]]},
  clock <- quotaClock

Billed(entitlement, meter, location) ==
  [entitlement |-> entitlement, meter |-> meter, location |-> location]

Moved(id, t, n, type, amount, currency) ==
  [id |-> id, transaction |-> t, sequence |-> n, type |-> type, amount |-> amount,
   currency |-> currency]

Billing == INSTANCE CommercialBilling WITH
  Ingester <- {p1, p2}, Biller <- {"b1"}, Action <- {"a1"},
  Binding <- {Billed("x", "m", Nil), Billed("y", "m", "l")},
  ExportId <- {"e"}, MaxRevision <- 2, MaxLines <- 1, MaxTime <- 2,
  Denominator <- 7, Party <- {"publisher", "model", "platform"},
  Gross <- {0, 1, 5, 9, 13, 50},
  Schedule <- [{"publisher", "model", "platform"} -> 0..7],
  FundsEvent <- {Moved("e1", "t1", 1, "payment", 9, "EUR"), Moved("e2", "t1", 2, "payout", 4, "EUR"),
                 Moved("e3", "t1", 2, "refund", 9, "EUR"), Moved("e4", "t1", 3, "payout", 1, "EUR"),
                 Moved("e4", "t2", 1, "payment", 5, "EUR"), Moved("e5", "t2", 1, "payment", 5, "USD"),
                 Moved("e6", "t2", 2, "refund", 5, "EUR"), Moved("e1", "t2", 1, "payment", 5, "EUR")},
  MaxRecords <- 4,
  clock <- usageClock, call <- ingestCall

-----------------------------------------------------------------------------
(* The approval of a transaction, and the boundary of an experience. *)

Step(id, dependsOn, trust) == [id |-> id, dependsOn |-> dependsOn, supply |-> "s", trust |-> trust]
Evidence(id, trust, permission) ==
  [id |-> id, supply |-> "s", trust |-> trust, permission |-> permission,
   challenged |-> permission = "confirm"]
Drafted(operations, evidence, expires) ==
  [operations |-> operations, evidence |-> evidence, expires |-> expires]

AThenB == <<Step("a", <<>>, 3), Step("b", <<"a">>, 3)>>
Circle == <<Step("a", <<"b">>, 3), Step("b", <<"a">>, 3)>>
BothOf(trust) == <<Evidence("b", trust, "confirm"), Evidence("a", trust, "allow")>>

Approval == INSTANCE TransactionApproval WITH
  Draft <- {Drafted(AThenB, BothOf(3), 3), Drafted(Circle, BothOf(3), 3),
            Drafted(AThenB, BothOf(2), 3), Drafted(AThenB, <<Evidence("a", 3, "allow")>>, 2),
            Drafted(<<Step("a", <<>>, 2), Step("b", <<"a">>, 2)>>, BothOf(2), 3),
            Drafted(<<Step("b", <<>>, 2)>>, <<Evidence("b", 2, "confirm")>>, 2)},
  User <- {[id |-> "u", kind |-> "user", organization |-> "o"],
           [id |-> "w", kind |-> "workload", organization |-> "o"],
           [id |-> "z", kind |-> "user", organization |-> "p"]},
  Organization <- "o", Verifier <- {p1, p2}, Nonce <- {r1, r2},
  Lifetime <- 1, MaxRevision <- 1, MaxApprovals <- 1, MaxGrants <- 2, MaxTime <- 3

Intended(id, key, type, expects) == [id |-> id, key |-> key, type |-> type, expects |-> expects]
Defined(type, effect) == [type |-> type, effect |-> effect, idempotency |-> "action-id"]

Boundary == INSTANCE ActionBoundary WITH
  Caller <- {p1, p2}, MaxRevision <- 2,
  Intent <- {Intended("a", "k", "write", 0), Intended("b", "k", "write", 0),
             Intended("b", "l", "pay", 0), Intended("c", "m", "write", 1),
             Intended("a", "n", "read", 0), Intended("e", "p", "drop", 0)},
  Definitions <- {Defined("read", "read"), Defined("write", "write"), Defined("pay", "write")},
  Rules <- <<[id |-> "read", effect |-> "allow"], [id |-> "write", effect |-> "allow"],
             [id |-> "pay", effect |-> "confirm"]>>,
  revision <- boundaryAt, disposed <- boundaryEnded

ASSUME Boundary!BoundaryConstants
ASSUME Approval!ApprovalConstants
ASSUME Studio!StudioConstants
ASSUME Billing!BillingConstants
ASSUME Billing!SettlementConstants
ASSUME Access!QuotaConstants

approvalVars  == <<frozen, approvals, signing, grants, verifying, nonces, accepted>>
boundaryVars  == <<boundaryAt, lastSeen, usedIds, usedKeys, reserved, boundaryEnded, granted,
                   flight, crossings>>
authorityVars == <<approvalVars, boundaryVars>>

Authority == {"approval", "boundary"}

\* What a behaviour is not about begins where one of its behaviours begins.
AuthorityInit ==
  /\ Approval!Init
  /\ Boundary!Init
  /\ part # "boundary" => boundaryAt = 0

AuthorityNext ==
  \/ part = "approval" /\ Approval!Next /\ UNCHANGED boundaryVars
  \/ part = "boundary" /\ Boundary!Next /\ UNCHANGED approvalVars

AuthorityTypesOK == Approval!TypeOK /\ Boundary!TypeOK

-----------------------------------------------------------------------------
(* Applications while they are written: one editor's canvas, and a shared one. *)

Lists(flows) == [k \in {"capabilities", "contextTypes", "flows", "governanceRequirements",
                        "protocolProjections", "entitlementRefs", "meteringRefs"} |->
                   IF k = "flows" THEN flows ELSE <<>>]
Application(name, actions) ==
  [identity |-> [publisher |-> "p", name |-> name], publisher |-> "p", experiences |-> <<"e">>,
   actions |-> actions, references |-> Lists(<<>>), brand |-> Off,
   host |-> [min |-> 1, max |-> Off, required |-> <<>>],
   triggers |-> <<>>, pricing |-> <<>>, settlement |-> <<>>]

Screen(id)      == [id |-> id, target |-> [kind |-> "experience"]]
Button(id, ref) == [id |-> id, target |-> [kind |-> "action", ref |-> ref]]
Offers(id)      == [id |-> id, kind |-> "experience-offers-action", from |-> "s", to |-> "b"]
Graph(nodes, edges) ==
  [id |-> [publisher |-> "p", name |-> "g"], version |-> 1, publisher |-> "p",
   nodes |-> nodes, edges |-> edges]
Draft(name, actions, graphs) == [application |-> Application(name, actions), graphs |-> graphs]

Pays(version)  == Graph(<<Screen("s"), Button("b", Named("pay", version))>>, <<Offers("o")>>)
Plain          == Graph(<<Screen("s")>>, <<>>)
Exactly(name)  == [id |-> [publisher |-> "p", name |-> name], version |-> 1]
G              == Exactly("g")
None           == Exactly("none")
Empty          == Draft("app", <<Named("pay", "1")>>, <<>>)
Paying         == Draft("app", <<Named("pay", "1")>>, <<Pays("1")>>)
Bare           == Draft("app", <<Named("pay", "1")>>, <<Plain>>)
Unbound        == Draft("app", <<Named("pay", "2")>>, <<Pays("1")>>)
Other          == Draft("other", <<Named("pay", "1")>>, <<Plain>>)

Chosen(nodes, edges) == [nodes |-> nodes, edges |-> edges]
Nothing == Chosen(<<>>, <<>>)
Looking(layouts, selection) ==
  [ref |-> G, layouts |-> layouts, viewport |-> "here", selection |-> selection]
Begun(semantics, views) ==
  [revision |-> 0, semantics |-> semantics, projection |-> [active |-> None, views |-> views]]

Canvas == INSTANCE CanvasSession WITH
  Editor <- {p1, p2}, FirstDraft <- {Begun(Paying, <<>>)},
  Semantics <- {Paying, Bare, Empty, Unbound},
  View <- {Looking(<<>>, Nothing), Looking(<<[node |-> "b", at |-> "here"]>>, Nothing),
           Looking(<<>>, Chosen(<<"s">>, <<"o">>))},
  MaxRevision <- 3, FloatingVersions <- {"latest"}, MaxReferences <- 2, Place <- {"here", "there"}, Nowhere <- "nowhere", NoGraph <- None

Shared == INSTANCE CanvasCollaboration WITH
  Participant <- {p1, p2, "z"}, RequiredApprovals <- 2,
  FirstDraft <- {Begun(Paying, <<Looking(<<>>, Chosen(<<>>, <<"o">>))>>), Begun(Paying, <<>>)},
  Semantics <- {Paying, Bare, Unbound, Other}, ProposalId <- {"1", "2"},
  Selection <- {Nothing, Chosen(<<"b">>, <<"o">>)}, MaxSequence <- 0,
  MaxRevision <- 2, FloatingVersions <- {"latest"}, MaxReferences <- 2, Place <- {"here", "there"}, Nowhere <- "nowhere", NoGraph <- None,
  draft <- shared

ASSUME Shared!CollaborationConstants

canvasVars    == <<draft, read>>
sharedVars    == <<shared, presence, proposals, reviews, applied>>
authoringVars == <<canvasVars, sharedVars, question>>

Authoring == {"canvas", "collaboration"}

\* What a behaviour is not about begins where one of its behaviours begins.
AuthoringInit ==
  /\ Canvas!Init
  /\ Shared!Init
  /\ part # "collaboration" => shared = Begun(Paying, <<>>)

AuthoringNext ==
  \/ part = "canvas"        /\ Canvas!Next /\ UNCHANGED <<sharedVars, question>>
  \/ part = "collaboration" /\ Shared!Next /\ UNCHANGED <<canvasVars, question>>

AuthoringTypesOK == Canvas!TypeOK /\ Shared!TypeOK

-----------------------------------------------------------------------------
(* The resolution of a release against a plane that goes on, and pages of a source. *)

Resolution == INSTANCE ApplicationResolution WITH
  Nil <- Off, Release <- {r1, r2}, Digest <- {"d1"}, Binding <- {"b"}, MaxRevision <- 3,
  Asked <- {"dev", "staging"}, Resolver <- {"q"}, MaxResolved <- 1,
  releases <- published, history <- deployed, active <- current

Transport == INSTANCE ApplicationFederation WITH
  Missing <- Off, MaxSources <- 0, MaxPerSource <- 0, MaxTotal <- 0,
  SourceId <- {"s"}, Cursor <- {"a", "b"}, NoCursor <- "none", Limit <- 1, Unknown <- Off,
  MaxChanges <- 1, Content <- [applications : {1}, next : {"none", "b"}]

resolutionVars   == <<published, deployed, current, lookup, resolved>>
transportVars    == <<served, changes, asked, answers, cache, ever, confirmed>>
distributionVars == <<resolutionVars, transportVars>>

Distribution == {"resolution", "transport"}

\* What a behaviour is not about begins where one of its behaviours begins.
DistributionInit ==
  /\ Resolution!Init
  /\ part # "transport" => served = [s \in {"s"} |-> [c \in {"a", "b"} |-> [applications |-> 1, next |-> "none"]]]
  /\ Transport!Init

DistributionNext ==
  \/ part = "resolution" /\ Resolution!Next /\ UNCHANGED transportVars
  \/ part = "transport"  /\ Transport!Next  /\ UNCHANGED resolutionVars

DistributionTypesOK == Resolution!TypeOK /\ Transport!TypeOK

-----------------------------------------------------------------------------
(* The sessions of browsers, and the workbench. *)

Browser == INSTANCE BrowserSession WITH
  Missing <- Off, Token <- {"t"}, Ingress <- {"i"}, Lifetime <- 3, Window <- 1, Allowance <- 1,
  MaxRevision <- 2, MaxTime <- 2, MaxSkew <- 2,
  clock <- sessionClock, ahead <- sessionAhead, signed <- forwarded, ever <- members

ASSUME Browser!BrowserConstants

identityVars == <<sessionClock, sessionAhead, membership, login, rows, browser, forwarded, used, ingress,
                  dispatched, members>>

benchVars == <<bench, last>>

Browsing == {"session", "workbench"}

BrowsingNext ==
  \/ part = "session"   /\ Browser!Next   /\ UNCHANGED benchVars
  \/ part = "workbench" /\ Documents!Next /\ UNCHANGED identityVars

-----------------------------------------------------------------------------
\* Bound: the deployments to all environments together.
MaxDeployments == 5
Deployments    == Len(history["dev"]) + Len(history["staging"]) + Len(history["production"])

studioVars == <<studioClock, record, revisions, studioCall, births, intruded>>
quotaVars  == <<quotaClock, usage, desk>>
usageVars  == <<usageClock, verifiedAt, events, ingestCall, bill, exports>>
fundsVars  == <<allocation, seen, sequence, records>>
allVars    == <<part, vars, studioVars, quotaVars, entitlements, usageVars, fundsVars,
                authorityVars, authoringVars, distributionVars, identityVars, benchVars>>

\* A service that this behaviour is not about stays where one of its
\* behaviours begins.
MCInit ==
  /\ part \in {"deployment", "studio", "quota", "entitlement", "billing", "settlement"}
              \cup Authority \cup Authoring \cup Distribution \cup Browsing \cup Questions
  /\ Init
  /\ Studio!Init
  /\ Access!Init
  /\ Billing!Init
  /\ part # "settlement" =>
       allocation.gross = 0 /\ allocation.schedule["platform"] = 7
  /\ AuthorityInit
  /\ AuthoringInit
  /\ DistributionInit
  /\ Browser!Init
  /\ sessionAhead["login"] = sessionAhead["web"]
  /\ \E place \in Browser!Place : sessionAhead[place] = 0
  /\ part # "session" => sessionAhead = [place \in Browser!Place |-> 0]
  /\ QuestionInit
  /\ WorkbenchInit

MCNext ==
  \/ /\ part = "deployment" /\ Next /\ Deployments' <= MaxDeployments
     /\ UNCHANGED <<part, studioVars, quotaVars, entitlements, usageVars, fundsVars, authorityVars,
                    authoringVars, distributionVars, identityVars, benchVars>>
  \/ /\ part = "studio" /\ Studio!Next
     /\ UNCHANGED <<part, vars, quotaVars, entitlements, usageVars, fundsVars, authorityVars,
                    authoringVars, distributionVars, identityVars, benchVars>>
  \/ /\ part = "quota" /\ Access!QuotaNext
     /\ UNCHANGED <<part, vars, studioVars, entitlements, usageVars, fundsVars, authorityVars,
                    authoringVars, distributionVars, identityVars, benchVars>>
  \/ /\ part = "entitlement" /\ Access!EntitlementNext
     /\ UNCHANGED <<part, vars, studioVars, quotaVars, usageVars, fundsVars, authorityVars,
                    authoringVars, distributionVars, identityVars, benchVars>>
  \/ /\ part = "billing" /\ Billing!UsageNext
     /\ UNCHANGED <<part, vars, studioVars, quotaVars, entitlements, fundsVars, authorityVars,
                    authoringVars, distributionVars, identityVars, benchVars>>
  \/ /\ part = "settlement" /\ Billing!FundsNext
     /\ UNCHANGED <<part, vars, studioVars, quotaVars, entitlements, usageVars, authorityVars,
                    authoringVars, distributionVars, identityVars, benchVars>>
  \/ /\ AuthorityNext
     /\ UNCHANGED <<part, vars, studioVars, quotaVars, entitlements, usageVars, fundsVars, authoringVars,
                    distributionVars, identityVars, benchVars>>
  \/ /\ AuthoringNext
     /\ UNCHANGED <<part, vars, studioVars, quotaVars, entitlements, usageVars, fundsVars,
                    authorityVars, distributionVars, identityVars, benchVars>>
  \/ /\ DistributionNext
     /\ UNCHANGED <<part, vars, studioVars, quotaVars, entitlements, usageVars, fundsVars,
                    authorityVars, authoringVars, identityVars, benchVars>>
  \/ /\ BrowsingNext
     /\ UNCHANGED <<part, vars, studioVars, quotaVars, entitlements, usageVars, fundsVars,
                    authorityVars, authoringVars, distributionVars>>

MCSpec == MCInit /\ [][MCNext]_allVars

\* Processes are interchangeable, and so are releases.
Interchangeable == {f @@ g : f \in Permutations({p1, p2}), g \in Permutations({r1, r2})}

-----------------------------------------------------------------------------
\* Types of the services.
AllTypesOK ==
  CASE part = "deployment"  -> TypeOK
    [] part = "studio"      -> Studio!TypeOK
    [] part = "quota"       -> Access!QuotaTypeOK
    [] part = "entitlement" -> Access!EntitlementTypeOK
    [] part = "billing"     -> Billing!UsageTypeOK
    [] part = "settlement"  -> Billing!FundsTypeOK
    [] part \in Authority   -> AuthorityTypesOK
    [] part \in Distribution -> DistributionTypesOK
    [] part = "session"     -> Browser!TypeOK
    [] part = "workbench"   -> Documents!TypeOK
    [] OTHER                -> AuthoringTypesOK

\* Whatever authors do at the same time, the experience can be read back, and
\* what is published is the revision that the publication names, until a mutation
\* that was checked against an experience that had its id before is stored as one
\* of this (StudioLifecycle, on one service clock).  What is drawn comes back from
\* the editor as it went, keeps its identities, its design and its renderers, and
\* stays a checked document (StudioDocument, StudioWorkbench).
StudioIsSound ==
  /\ part = "studio" => Studio!StudioIsReadable /\ Studio!PublishedAsNamed
  /\ DrawnAnswersAreSound

\* An overrun of a quota is bounded by what was allowed and not yet used, among
\* consumers that share a clock; the evidence of a rating is what its reader
\* accepts; a projection is the rating of what it projects (CommercialAccess).
QuotaIsSound ==
  part = "quota" =>
    Access!OverrunIsBounded /\ Access!EvidenceIsCanonical /\ Access!ProjectionIsTheRating

\* An action is billed once under a meter, and a record once in an invoice
\* and what is settled adds up, and what was moved follows the
\* order of its transaction (CommercialBilling).
MoneyIsSound ==
  /\ part = "billing" => Billing!BilledOncePerMeter /\ Billing!InvoicedOnce
  /\ part = "settlement" =>
       Billing!AllocationIsWhole /\ Billing!RecordsFollowTheTransaction

\* Nothing is done but in somebody's authority.  What is accepted is an operation
\* of a plan that a person has seen and approved as it stands, and a nonce is
\* accepted once; the same operation may be granted and accepted again under
\* another (TransactionApproval).  A signed request, which may be carried out more
\* than once, is so within its window, and while its session and its membership
\* last by the clock of the process that takes it (BrowserSession).  One acts for
\* another as far as that one's grants reach (IdentityDelegation).  Of the state of
\* an experience at most one effect is computed, whatever is late, lost or thrown
\* (ActionBoundary).
AuthorityIsSound ==
  /\ part = "approval" =>
       Approval!PlansCanBeCarriedOut /\ Approval!AuthorityIsApproved /\ Approval!AcceptedOnce
  /\ part = "boundary" => Boundary!BoundaryHolds
  /\ part = "session" => Browser!NothingAfterTheEnd
  /\ IdentityAnswersAreSound

\* What is written is an application: no edit leaves a view of what is gone
\* (CanvasSession) or changes of a document what it does not name (StudioDocument), what is applied to a shared draft is what peers agreed to
\* (CanvasCollaboration); what is resolved is a deployment that was made, and no
\* older than the question (ApplicationResolution); what is kept of a source is
\* what it served, what several sources serve is one catalogue, and what was
\* attested stays accepted until it ends (ApplicationFederation); and what packs, capabilities and
\* migrations answer, which keep no state.
ApplicationsAreSound ==
  /\ part = "canvas" => Canvas!NothingDangles
  /\ part = "collaboration" =>
       /\ Shared!AppliedWasAgreed /\ Shared!RivalsGoStale
       /\ Shared!PresenceIsSomewhere /\ Shared!CompatibleStaysApplicable
  /\ part = "resolution" => Resolution!ResolutionIsADeployment /\ Resolution!ResolutionIsFresh
  /\ part = "transport" => Transport!CacheWasServed /\ Transport!ConfirmedIsCurrent
  /\ WrittenAnswersAreSound
  /\ FederationAnswersAreSound
  /\ ApplicationAnswersAreSound

\* No step activates a release that is deprecated, gives an entitlement's place to
\* another, changes an invoice that was exported, writes over an edit its editor
\* has not seen, or loses what the workbench was not asked to change.  None changes
\* a draft and the publication at once, but for the late write of a mutation of an
\* experience that had the id before, and those after it until the deletion.
StepsAreSound ==
  /\ NoDeprecatedActivation
  /\ Studio!DraftAndPublicationApart
  /\ [][part = "entitlement" => Access!Undisplaced]_entitlements
  /\ Billing!ExportsAreImmutable
  /\ Canvas!NoUnseenOverwrite
  /\ [][part = "workbench" => Documents!ReconcileKeepsTheRest]_benchVars
=============================================================================
