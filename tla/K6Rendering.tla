---------------------------- MODULE K6Rendering ----------------------------
(***************************************************************************)
(* packages/k6-api-adapter, what the documents say: the intents of a plan  *)
(* become operations in request groups, the groups become a k6 script, and *)
(* the static validator reads the script.  An operation's identity is that *)
(* of its intent; digests order operations and groups, so the rank of both *)
(* is an input.  Of a text it matters which stage refuses it:              *)
(* "unusable" the compiler, "unsafe" the renderer, "keyword" only the      *)
(* static validator.                                                       *)
(***************************************************************************)
EXTENDS TestPlanner

CONSTANT
  Limits   \* K6_API_SOURCE_LIMITS: groups, operations, and per operation
           \* assertions and thresholds

OperationInputFields == {"operation", "requestBodyArtifact", "queryParameters"}
AssertionFields == {"statusCodes", "jsonPathExists", "jsonPathEquals"}
ThresholdFields == {"maxDurationMs", "maxFailureRate", "minChecksRate"}

Texts(id) ==
  UNION { Items(part) : part \in {id.input, id.assertions, id.thresholds} }

-----------------------------------------------------------------------------
(* The compiler *)

NormalizableAssertions(assertions) ==
  /\ DOMAIN assertions \subseteq AssertionFields
  /\ DOMAIN assertions # {}

NormalizableThresholds(thresholds) == DOMAIN thresholds \subseteq ThresholdFields

\* An artifact that the request does not bind is an unusable text.
NormalizableIntent(intent) ==
  /\ "operation" \in DOMAIN intent.id.input
  /\ DOMAIN intent.id.input \subseteq OperationInputFields
  /\ NormalizableAssertions(intent.id.assertions)
  /\ NormalizableThresholds(intent.id.thresholds)
  /\ "unusable" \notin Texts(intent.id)

\* createAssertion and createThreshold, without identifiers and values.
AssertionOf ==
  [ statusCodes |-> [kind |-> "STATUS_CODE_IN", operator |-> "IN"],
    jsonPathExists |-> [kind |-> "JSON_PATH_EXISTS", operator |-> "EXISTS"],
    jsonPathEquals |-> [kind |-> "JSON_PATH_EQUALS", operator |-> "EQUALS"] ]
ThresholdOf ==
  [ maxDurationMs |-> [metric |-> "HTTP_REQUEST_DURATION_MS", operator |-> "LESS_THAN_OR_EQUAL"],
    maxFailureRate |-> [metric |-> "CHECK_FAILURE_RATE", operator |-> "LESS_THAN_OR_EQUAL"],
    minChecksRate |-> [metric |-> "CHECK_SUCCESS_RATE", operator |-> "GREATER_THAN_OR_EQUAL"] ]

NormalizeIntent(intent) ==
  [ id |-> intent.id, target |-> intent.id.target,
    dependencies |-> intent.dependencies,
    queryParameters |-> "queryParameters" \in DOMAIN intent.id.input,
    assertions |-> { AssertionOf[a] : a \in DOMAIN intent.id.assertions },
    thresholds |-> { ThresholdOf[t] : t \in DOMAIN intent.id.thresholds }, texts |-> Texts(intent.id) ]

\* A group of each target.
CreateRequestGroups(operations, order) ==
  LET targets == SortedBy({ o.target : o \in operations }, order.groups)
      of(target) == { o \in operations : o.target = target }
  IN [g \in DOMAIN targets |->
        [ target |-> targets[g],
          operations |-> SortedBy(of(targets[g]),
                                  [o \in of(targets[g]) |-> order.operations[o.id]]) ]]

CompileK6ApiExecutionSpec(intents, order) ==
  LET operations == { NormalizeIntent(i) : i \in intents }
  IN IF /\ intents # {}
        /\ \A i \in intents : NormalizableIntent(i)
        /\ \A o \in operations : o.dependencies \subseteq { p.id : p \in operations }
     THEN [ok |-> TRUE, groups |-> CreateRequestGroups(operations, order)]
     ELSE Refused

-----------------------------------------------------------------------------
(* What the renderer accepts *)

Operations(groups) == UNION { ToSet(groups[g].operations) : g \in DOMAIN groups }

ValidAssertion(assertion) ==
  assertion \in { AssertionOf[field] : field \in AssertionFields }

\* A rate may be bounded from either side, a duration only from above.
ValidThreshold(threshold) ==
  /\ threshold.metric \in { ThresholdOf[field].metric : field \in ThresholdFields }
  /\ threshold.operator \in
       {"LESS_THAN_OR_EQUAL"} \cup (IF threshold.metric = "HTTP_REQUEST_DURATION_MS" THEN {}
                                   ELSE {"GREATER_THAN_OR_EQUAL"})

\* The accepted specification holds no values for query parameters.
ValidOperation(operation) ==
  /\ ~operation.queryParameters
  /\ operation.assertions # {}
  /\ \A a \in operation.assertions : ValidAssertion(a)
  /\ \A t \in operation.thresholds : ValidThreshold(t)

\* validateBounds, of a source generation request.
WithinBounds(groups) ==
  /\ Len(groups) <= Limits.groups
  /\ Cardinality(Operations(groups)) <= Limits.operations
  /\ \A o \in Operations(groups) : /\ Cardinality(o.assertions) <= Limits.assertions
                                   /\ Cardinality(o.thresholds) <= Limits.thresholds

ValidGroup(group) ==
  /\ group.operations # << >>
  /\ \A o \in ToSet(group.operations) : o.target = group.target /\ ValidOperation(o)

GroupOf(groups, id) ==
  CHOOSE g \in DOMAIN groups : \E o \in ToSet(groups[g].operations) : o.id = id

\* Wrong variant: a dependency may sit in a later group.
AnyGroup(groups) ==
  /\ \A o \in Operations(groups) :
       o.dependencies \subseteq { p.id : p \in Operations(groups) } \ {o.id}
  /\ Acyclic(Operations(groups))

ValidDependencyGraph(groups) ==
  /\ \A o \in Operations(groups) :
       /\ o.dependencies \subseteq { p.id : p \in Operations(groups) } \ {o.id}
       /\ \A d \in o.dependencies : GroupOf(groups, d) <= GroupOf(groups, o.id)
  /\ Acyclic(Operations(groups))

RenderableSpec(groups) ==
  /\ groups # << >>
  /\ \A g \in DOMAIN groups : ValidGroup(groups[g])
  /\ ValidDependencyGraph(groups)

\* Where the operations of a group stand that wait for none of the others.
Ready(operations, done) ==
  { i \in DOMAIN operations :
      /\ operations[i] \notin ToSet(done)
      /\ operations[i].dependencies \cap { o.id : o \in ToSet(operations) }
           \subseteq { o.id : o \in ToSet(done) } }

\* What is placed after some rounds, each of which adds the first that is ready.
Placed(operations) ==
  LET next(done) == Ready(operations, done)
      placed[n \in 0 .. Len(operations)] ==
        IF n = 0 THEN << >>
        ELSE IF next(placed[n - 1]) = {} THEN placed[n - 1]
        ELSE Append(placed[n - 1], operations[Min(next(placed[n - 1]))])
  IN placed

OrderOperations(operations) == Placed(operations)[Len(operations)]

OrderGroups(groups) ==
  [g \in DOMAIN groups |-> [groups[g] EXCEPT !.operations = OrderOperations(@)]]

ValidRendererInput(spec) ==
  /\ WithinBounds(spec.groups)
  /\ RenderableSpec(spec.groups)
  /\ \A g \in DOMAIN spec.groups :
       Len(OrderOperations(spec.groups[g].operations)) = Len(spec.groups[g].operations)

-----------------------------------------------------------------------------
(* The script: its calls in order, the keys of its options, whether the    *)
(* JSON helpers are there, and every text that went into it.               *)

HasJsonAssertions(operation) == operation.assertions \ {AssertionOf["statusCodes"]} # {}

\* renderThreshold: a failure rate is rendered as a rate of successful checks.
MetricKey(threshold) ==
  IF threshold.metric = "HTTP_REQUEST_DURATION_MS" THEN "http_req_duration" ELSE "checks"

\* Thresholds with the same metric key share a line of the options.
RenderOptions(operations) ==
  UNION { { << MetricKey(t), o.id >> : t \in o.thresholds } : o \in operations }

RenderOperation(operation) ==
  [id |-> operation.id, checks |-> operation.assertions]

Flattened(groups) == FlattenSeq([g \in DOMAIN groups |-> groups[g].operations])

\* Wrong variant: the helpers are always there.
RenderWithHelpers(groups) ==
  LET operations == Flattened(groups)
  IN [ calls |-> [i \in DOMAIN operations |-> RenderOperation(operations[i])],
       options |-> RenderOptions(ToSet(operations)),
       helpers |-> TRUE,
       texts |-> UNION { o.texts : o \in ToSet(operations) } ]

RenderSourceDocument(groups) ==
  LET operations == Flattened(groups)
  IN [ calls |-> [i \in DOMAIN operations |-> RenderOperation(operations[i])],
       options |-> RenderOptions(ToSet(operations)),
       helpers |-> \E o \in ToSet(operations) : HasJsonAssertions(o),
       texts |-> UNION { o.texts : o \in ToSet(operations) } ]

\* The sum of a sequence of numbers.
Total(counts) ==
  LET upTo[n \in 0 .. Len(counts)] == IF n = 0 THEN 0 ELSE upTo[n - 1] + counts[n]
  IN upTo[Len(counts)]

ValidRenderedSourceText(source) == "unsafe" \notin source.texts

RenderK6ApiSource(spec) ==
  LET groups == OrderGroups(spec.groups)
      operations == Flattened(groups)
      source == RenderSourceDocument(groups)
  IN IF ValidRendererInput(spec) /\ ValidRenderedSourceText(source)
     THEN [ ok |-> TRUE, source |-> source,
            operationCount |-> Len(operations),
            assertionCount |-> Total([i \in DOMAIN operations |->
                                        Cardinality(operations[i].assertions)]),
            thresholdCount |-> Total([i \in DOMAIN operations |->
                                        Cardinality(operations[i].thresholds)]) ]
     ELSE Refused

-----------------------------------------------------------------------------
(* The static validator: all four functions are there, the options are     *)
(* there, and there are as many lines of a kind as the result counts.      *)

ValidSourceText(source, result) ==
  /\ source.helpers
  /\ source.options # {}
  /\ Len(source.calls) = result.operationCount
  /\ Total([i \in DOMAIN source.calls |-> Cardinality(source.calls[i].checks)])
       = result.assertionCount
  /\ Cardinality(source.options) = result.thresholdCount
  /\ source.texts \cap {"unsafe", "keyword"} = {}

ValidateK6ApiSourceStatically(result) ==
  [ok |-> ValidSourceText(result.source, result)]
=============================================================================
