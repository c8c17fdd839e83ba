------------------------------- MODULE Claims -------------------------------
(***************************************************************************)
(* The claim engine of internal/claims: how the claims of an id_token, or  *)
(* of an id_token merged with a userinfo answer, are read by the login     *)
(* filters, by the role mapping and by the identity the host receives.     *)
(*                                                                         *)
(* A JSON value is a tuple <<kind, payload>>, so that values of different  *)
(* Go dynamic types are always different, as reflect.DeepEqual has it. An  *)
(* array's payload is a sequence of values, an object's a function from    *)
(* keys to values; a claim set (map[string]any) is an object's payload.    *)
(***************************************************************************)
EXTENDS Integers, Sequences, FiniteSetsExt

CONSTANTS
    HasSubstring(_, _),  \* strings.Contains(s, sub)
    HasPrefix(_, _),     \* strings.HasPrefix(s, prefix)
    Compiles(_),         \* regexp.Compile(p) returns no error
    MatchString(_, _),   \* rx.MatchString(s), for a pattern that compiles
    Sprint(_)            \* fmt.Sprint(v), for a number, bool, null or object

JString(s) == <<"string", s>>
JNumber(n) == <<"number", n>>
JBool(b)   == <<"bool", b>>
JNull      == <<"null">>
JArray(s)  == <<"array", s>>
JObject(m) == <<"object", m>>

IsKind(v, kind) == v[1] = kind

\* m[key] of Go: the nil value when the key is missing.
Lookup(m, key) == IF key \in DOMAIN m THEN m[key] ELSE JNull

\* s, _ := v.(string): the empty string when v holds anything else.
AsString(v) == IF IsKind(v, "string") THEN v[2] ELSE ""

-----------------------------------------------------------------------------
(* path.go *)

Hit(v) == [found |-> TRUE, value |-> v]
Miss   == [found |-> FALSE, value |-> JNull]

\* A path is the sequence of its dot-separated keys; the empty path is <<>>.
ResolvePath(m, path) ==
    LET walk[i \in 0..Len(path)] ==
            IF i = 0
            THEN Hit(JObject(m))
            ELSE LET cur == walk[i - 1]
                 IN  IF /\ cur.found
                        /\ IsKind(cur.value, "object")
                        /\ path[i] \in DOMAIN cur.value[2]
                     THEN Hit(cur.value[2][path[i]])
                     ELSE Miss
    IN  IF path = <<>> THEN Miss ELSE walk[Len(path)]

-----------------------------------------------------------------------------
(* operator.go *)

Equals(claim, value) ==
    /\ ~IsKind(claim, "array")
    /\ ~IsKind(value, "array")
    /\ claim = value

Contains(claim, value) ==
    \/ /\ IsKind(claim, "array")
       /\ \E i \in DOMAIN claim[2] : claim[2][i] = value
    \/ /\ IsKind(claim, "string") /\ IsKind(value, "string")
       /\ HasSubstring(claim[2], value[2])

StartsWith(claim, value) ==
    /\ IsKind(claim, "string") /\ IsKind(value, "string")
    /\ HasPrefix(claim[2], value[2])

RegexMatch(claim, value) ==
    /\ IsKind(value, "string")
    /\ Compiles(value[2])
    /\ \/ /\ IsKind(claim, "string")
          /\ MatchString(value[2], claim[2])
       \/ /\ IsKind(claim, "array")
          /\ \E i \in DOMAIN claim[2] : /\ IsKind(claim[2][i], "string")
                                        /\ MatchString(value[2], claim[2][i][2])
       \/ /\ ~IsKind(claim, "string") /\ ~IsKind(claim, "array")
          /\ MatchString(value[2], Sprint(claim))

Eval(operator, claim, value) ==
    \/ operator = "equals"      /\ Equals(claim, value)
    \/ operator = "contains"    /\ Contains(claim, value)
    \/ operator = "starts_with" /\ StartsWith(claim, value)
    \/ operator = "regex"       /\ RegexMatch(claim, value)

-----------------------------------------------------------------------------
(* eval.go: a rule is a record with the fields claim_path, operator, value *)
(* and, in the role mapping, role.                                         *)

RuleHolds(claims, rule) ==
    LET at == ResolvePath(claims, rule.claim_path)
    IN  at.found /\ Eval(rule.operator, at.value, rule.value)

EvaluateFilters(claims, filters) ==
    \A i \in DOMAIN filters : RuleHolds(claims, filters[i])

\* Mutant: a filter passes where its claim is found.
TraceFiltersFound(claims, filters) ==
    LET match == [i \in DOMAIN filters |-> ResolvePath(claims, filters[i].claim_path).found]
    IN  [match |-> match, pass |-> \A i \in DOMAIN filters : match[i]]

\* Every filter's verdict, where EvaluateFilters stops at the first that fails. The
\* value found and the rule itself, which the page shows beside it, are left out.
TraceFilters(claims, filters) ==
    LET match == [i \in DOMAIN filters |-> RuleHolds(claims, filters[i])]
    IN  [match |-> match, pass |-> \A i \in DOMAIN filters : match[i]]

\* The first rule that holds assigns the role; its index counts from zero.
TraceRole(claims, rules) ==
    LET holding == {i \in DOMAIN rules : RuleHolds(claims, rules[i])}
    IN  IF holding = {}
        THEN [role |-> "user", index |-> -1]
        ELSE [role |-> rules[Min(holding)].role, index |-> Min(holding) - 1]

ResolveRole(claims, rules) == TraceRole(claims, rules).role

-----------------------------------------------------------------------------
(* identity.go *)

EmailVerified(claims) == Lookup(claims, "email_verified") = JBool(TRUE)

\* DisplayName is presentation only and is left out.
DeriveIdentity(claims) ==
    [subject |-> AsString(Lookup(claims, "sub")),
     email   |-> AsString(Lookup(claims, "email"))]

=============================================================================
