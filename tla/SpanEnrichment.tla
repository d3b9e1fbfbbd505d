---------------------------- MODULE SpanEnrichment ----------------------------
(***************************************************************************)
(* What enrichSpan puts on a span (span_enrichment.go,                     *)
(* custom_attribute.go).                                                   *)
(*                                                                         *)
(* The configuration lists span attributes, each with configs for a        *)
(* namespace and a service, either of which may be absent, and each of     *)
(* these with rules.  A rule has the span kinds it is for, its source      *)
(* attributes, and what its regular expression and replacement make of     *)
(* their values: a function on the tuples it matches.                      *)
(*                                                                         *)
(* A service key is the sequence of the parts that are joined in it.       *)
(* Attributes are functions from names to values.                          *)
(***************************************************************************)
EXTENDS Integers, Sequences, FiniteSetsExt

CONSTANTS
  Absent,   \* a namespace or service that is not given
  NoValue   \* the empty string

\* Both are the empty string in the code, which is none of these.
ASSUME EmptyAssumption ==
  Absent # "default" /\ NoValue \notin {"inbound", "outbound", "internal"}

RequestType == "asserts.request.type"
RequestContext == "asserts.request.context"

Put(attributes, name, value) ==
  [a \in DOMAIN attributes \cup {name} |->
     IF a = name THEN value ELSE attributes[a]]

DefaultKey == <<"default">>

\* getKey.
ConfigKey(config) ==
  CASE config.namespace # Absent /\ config.service # Absent ->
         <<config.namespace, config.service>>
    [] config.namespace # Absent /\ config.service = Absent -> <<config.namespace>>
    [] config.namespace = Absent /\ config.service # Absent -> <<config.service>>
    [] config.namespace = Absent /\ config.service = Absent -> DefaultKey

\* The last of the elements of a sequence with a property.
LastWith(seq, Has(_)) == seq[Max({i \in DOMAIN seq : Has(seq[i])})]

\* A rule without span kinds is for servers.
CompileRule(rule) ==
  [kinds   |-> IF rule.kinds = {} THEN {"Server"} ELSE rule.kinds,
   sources |-> rule.sources,
   value   |-> rule.value]

\* compileSpanAttributes.  The last of several entries for one attribute, or
\* for one key of it, takes the place of the others.
Compile(spanAttributes) ==
  LET RulesFor(configs, key) ==
        LET rules == LastWith(configs, LAMBDA c : ConfigKey(c) = key).rules
        IN  [i \in DOMAIN rules |-> CompileRule(rules[i])]
      ByKey(configs) ==
        [key \in {ConfigKey(configs[i]) : i \in DOMAIN configs} |->
           RulesFor(configs, key)]
  IN  [target \in {spanAttributes[i].name : i \in DOMAIN spanAttributes} |->
         ByKey(LastWith(spanAttributes, LAMBDA a : a.name = target).configs)]

\* addRequestType.  A span of unspecified kind gets none.
AddRequestType(attributes, kind) ==
  LET type == CASE kind \in {"Client", "Producer"} -> "outbound"
                [] kind \in {"Server", "Consumer"} -> "inbound"
                [] kind = "Internal" -> "internal"
                [] OTHER -> NoValue
  IN  IF type = NoValue THEN attributes ELSE Put(attributes, RequestType, type)

\* getCustomAttribute.
CustomAttribute(rule, kind, attributes) ==
  LET values == [i \in DOMAIN rule.sources |-> attributes[rule.sources[i]]]
  IN  IF /\ kind \in rule.kinds
         /\ \A i \in DOMAIN rule.sources : rule.sources[i] \in DOMAIN attributes
         /\ values \in DOMAIN rule.value
        THEN rule.value[values]
        ELSE NoValue

\* The value of the first rule that yields one.
FirstValue(rules, kind, attributes) ==
  LET Value(i) == CustomAttribute(rules[i], kind, attributes)
      yielding == {i \in DOMAIN rules : Value(i) # NoValue}
  IN  IF yielding = {} THEN NoValue ELSE Value(Min(yielding))

ServiceKey(namespace, service) ==
  IF namespace = Absent THEN <<service>> ELSE <<namespace, service>>

\* The keys getAttrConfigs tries, in this order.
KeysOf(namespace, service) ==
  <<ServiceKey(namespace, service), <<namespace>>, <<service>>>>

\* The rules of the first key that has any, be it an empty list.
AttrConfigs(byKey, namespace, service) ==
  LET keys == KeysOf(namespace, service)
      configured == {i \in DOMAIN keys : keys[i] \in DOMAIN byKey}
  IN  IF configured = {} THEN <<>> ELSE byKey[keys[Min(configured)]]

\* The rules of the service, then the default ones.
TargetValue(byKey, namespace, service, kind, attributes) ==
  LET own == FirstValue(AttrConfigs(byKey, namespace, service), kind, attributes)
  IN  IF own = NoValue /\ DefaultKey \in DOMAIN byKey
        THEN FirstValue(byKey[DefaultKey], kind, attributes)
        ELSE own

EnrichTarget(attributes, target, value) ==
  IF value = NoValue THEN attributes ELSE Put(attributes, target, value)

\* The span name stands in for a request context that nothing gave.
DefaultContext(attributes, name) ==
  IF RequestContext \in DOMAIN attributes
    THEN attributes
    ELSE Put(attributes, RequestContext, name)
=============================================================================
