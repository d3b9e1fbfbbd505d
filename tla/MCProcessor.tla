------------------------------ MODULE MCProcessor ------------------------------
(***************************************************************************)
(* One trace across two namespaces with services of the same name, one of  *)
(* them with two root spans, a span of another trace in between, and one   *)
(* of a resource without a service; a second batch without a namespace, a  *)
(* third without spans.  The two configurations differ in how both of two  *)
(* attributes come about, and in one of them an attribute may be made from *)
(* the other.                                                              *)
(***************************************************************************)
EXTENDS Processor, TLC

CONSTANTS root1, root2, inner, other, stray, single

MCSpans == {root1, root2, inner, other, stray, single}

Span(trace, kind, hasParent, attrs) ==
  [trace |-> trace, kind |-> kind, hasParent |-> hasParent,
   attributes |-> attrs, name |-> "name"]

MCData ==
  root1 :> Span("t1", "Server", FALSE, "url" :> "/a")
  @@ root2 :> Span("t1", "Server", FALSE, "url" :> "/b")
  @@ inner :> Span("t1", "Internal", TRUE, <<>>)
  @@ other :> Span("t2", "Client", TRUE, "url" :> "/b")
  @@ stray :> Span("t1", "Server", FALSE, "url" :> "/a")
  @@ single :> Span("t3", "Server", TRUE, "url" :> "/a")

Group(namespace, service, spans) ==
  [namespace |-> namespace, service |-> service, spans |-> spans]

MCBatches ==
  { << Group("shop", "api", <<root1>>),
       Group("bank", "api", <<inner, other>>),
       Group("shop", NoService, <<stray>>),
       Group("shop", "api", <<root2>>) >>,
    << Group(Absent, "api", <<single>>) >>,
    << Group("shop", "api", <<>>) >> }

Rule(kinds, sources, value) ==
  [kinds |-> kinds, sources |-> sources, value |-> value]

Config(namespace, service, rules) ==
  [namespace |-> namespace, service |-> service, rules |-> rules]

Entry(name, configs) == [name |-> name, configs |-> configs]

Const(v) == Rule({"Client", "Server", "Consumer"}, <<>>, <<>> :> v)
Path(a, b) == Rule({}, <<"url">>, <<"/a">> :> a @@ <<"/b">> :> b)

MCSpanAttributes ==
  { << Entry(RequestContext,
         << Config("shop", Absent, <<Path("wide", NoValue)>>),
            Config("shop", "api", <<Path("a", NoValue), Const("rest")>>) >>),
       Entry("owner", << Config(Absent, Absent, <<Const("one")>>) >>) >>,
    << Entry(RequestContext, << Config(Absent, "api", <<Path("A", "B")>>),
                                Config("bank", Absent, <<>>) >>),
       Entry("owner", << Config(Absent, Absent, <<Const("unused")>>) >>),
       Entry("owner",
         << Config("shop", "api", <<Path("two", NoValue)>>),
            Config(Absent, Absent,
              << Rule({}, <<RequestContext>>, <<"B">> :> "two B"),
                 Const("two") >>) >>) >> }
=============================================================================
