-------------------------------- MODULE Dsl ---------------------------------
(***************************************************************************)
(* Container requirements: a predicate is a sequence of groups separated   *)
(* by spaces, a group a sequence of expressions separated by commas        *)
(* (cli/dsl.c). An expression is empty or compares what a rule of          *)
(* cli/configure.c looks up with a value.                                  *)
(***************************************************************************)
EXTENDS Integers, Sequences, FiniteSets, FiniteSetsExt

CONSTANTS
  Predicates,   \* predicates to evaluate
  Data          \* what the rules look up: values of cuda, driver, arch, brand

(* A version is the sequence of its numbers, a brand that of its           *)
(* characters.                                                             *)
Text  == <<-1>>     \* not made of digits and dots
NULL  == <<-2>>     \* not provided by the driver, or no device is visible
Empty == [rule |-> "", op |-> "", val |-> <<>>]   \* nothing between two commas
Expression == [rule : STRING, op : STRING, val : Seq(Int)]

(* What a rule other than that of the brand looks up, and is compared      *)
(* with, is read as numbers or is not made of them.                        *)
ASSUME DslAssumption ==
  /\ DOMAIN Data = {"cuda", "driver", "arch", "brand"}
  /\ \A r \in {"cuda", "driver", "arch"} : Data[r] \in Seq(Nat) \cup {Text, NULL}
  /\ Predicates \subseteq Seq(Seq(Expression))
  /\ \A p \in Predicates : \A g \in 1 .. Len(p) : \A i \in 1 .. Len(p[g]) :
       p[g][i].rule \in {"cuda", "driver", "arch"} => p[g][i].val \in Seq(Nat) \cup {Text}

VARIABLES
  predicate,
  group,    \* index of or_expr
  expr,     \* index of and_expr
  ret,      \* result of the last expression
  verdict        \* result of dsl_evaluate

dslvars == <<predicate, group, expr, ret, verdict>>

(* strncmp compares as many characters as the expression has: "!" passes   *)
(* for "!=", "==" for nothing.                                             *)
operators ==
  [o \in {"=", "!=", "!", "<", "<=", ">", ">="} |->
     CASE o = "=" -> "EQUAL" [] o \in {"!=", "!"} -> "NOT_EQUAL"
       [] o = "<" -> "LESS" [] o = "<=" -> "LESS_EQUAL"
       [] o = ">" -> "GREATER" [] o = ">=" -> "GREATER_EQUAL"]

(* The first difference decides; without one, the rest of the longer       *)
(* version does unless it is made of zeros.                                *)
Rest(v, n) == \E i \in n + 1 .. Len(v) : v[i] # 0

\* variant: zeros at the end count
dsl_compare_version_Length(v1, cmp, v2) ==
  LET n == Min({Len(v1), Len(v2)})
      D == {i \in 1 .. n : v1[i] # v2[i]}
      less    == IF D # {} THEN v1[Min(D)] < v2[Min(D)] ELSE Len(v1) < Len(v2)
      greater == IF D # {} THEN v1[Min(D)] > v2[Min(D)] ELSE Len(v1) > Len(v2) IN
  IF v1 = Text \/ v2 = Text THEN -1 ELSE
  LET holds == CASE cmp = "EQUAL" -> ~less /\ ~greater [] cmp = "NOT_EQUAL" -> less \/ greater
                 [] cmp = "LESS" -> less [] cmp = "LESS_EQUAL" -> ~greater
                 [] cmp = "GREATER" -> greater [] cmp = "GREATER_EQUAL" -> ~less
  IN IF holds THEN 1 ELSE 0

dsl_compare_version(v1, cmp, v2) ==
  IF v1 = Text \/ v2 = Text THEN -1 ELSE
  LET n  == Min({Len(v1), Len(v2)})
      D  == {i \in 1 .. n : v1[i] # v2[i]}
      r1 == Rest(v1, n)
      r2 == Rest(v2, n)
      holds ==
        IF D # {}
        THEN CASE cmp = "EQUAL" -> FALSE [] cmp = "NOT_EQUAL" -> TRUE
               [] cmp \in {"LESS", "LESS_EQUAL"} -> v1[Min(D)] < v2[Min(D)]
               [] OTHER -> v1[Min(D)] > v2[Min(D)]
        ELSE CASE cmp = "NOT_EQUAL" -> r1 \/ r2
               [] cmp = "EQUAL" -> ~r1 /\ ~r2
               [] cmp = "LESS" -> ~r1 /\ r2 [] cmp = "LESS_EQUAL" -> ~r1
               [] cmp = "GREATER" -> r1 /\ ~r2 [] cmp = "GREATER_EQUAL" -> ~r2
  IN IF holds THEN 1 ELSE 0

dsl_compare_string(s1, cmp, s2) ==
  CASE cmp = "EQUAL" -> IF s1 = s2 THEN 1 ELSE 0
    [] cmp = "NOT_EQUAL" -> IF s1 = s2 THEN 0 ELSE 1
    [] OTHER -> -1

(* check_cuda_version and the other rules: what is not known is fine. *)
Check(rule, cmp, val) ==
  IF Data[rule] = NULL THEN 1
  ELSE IF rule = "brand" THEN dsl_compare_string(Data[rule], cmp, val)
  ELSE dsl_compare_version(Data[rule], cmp, val)

evaluate_rule(e) ==
  IF e.op \in DOMAIN operators /\ e.val # <<>> /\ e.rule \in DOMAIN Data
  THEN Check(e.rule, operators[e.op], e.val)
  ELSE -1
-----------------------------------------------------------------------------
DslInit == predicate \in Predicates /\ group = 1 /\ expr = 1 /\ ret = 1 /\ verdict = -2

Running == verdict = -2 /\ group <= Len(predicate)

Skip ==
  /\ Running /\ expr <= Len(predicate[group]) /\ predicate[group][expr] = Empty
  /\ expr' = expr + 1
  /\ UNCHANGED <<predicate, group, ret, verdict>>

(* The first expression of a group that does not hold ends the group. *)
\* variant: the rest of the group is evaluated
Evaluate_Continues ==
  /\ Running /\ expr <= Len(predicate[group]) /\ predicate[group][expr] # Empty
  /\ LET r == evaluate_rule(predicate[group][expr]) IN
     \/ r < 0 /\ ret' = r /\ verdict' = -1 /\ UNCHANGED <<group, expr>>
     \/ r >= 0 /\ ret' = r /\ expr' = expr + 1 /\ UNCHANGED <<group, verdict>>
  /\ UNCHANGED predicate

Evaluate ==
  /\ Running /\ expr <= Len(predicate[group]) /\ predicate[group][expr] # Empty
  /\ LET r == evaluate_rule(predicate[group][expr]) IN
     \/ r < 0 /\ ret' = r /\ verdict' = -1 /\ UNCHANGED <<group, expr>>
     \/ r = 0 /\ ret' = 0 /\ group' = group + 1 /\ expr' = 1 /\ UNCHANGED verdict
     \/ r = 1 /\ ret' = 1 /\ expr' = expr + 1 /\ UNCHANGED <<group, verdict>>
  /\ UNCHANGED predicate

Result == IF ret = 1 THEN 0 ELSE -1

(* A group that was read to its end ends the evaluation; an empty one, as  *)
(* between two spaces, is passed over.                                     *)
PassEmpty ==
  /\ Running /\ predicate[group] = <<>>
  /\ group' = group + 1 /\ UNCHANGED <<predicate, expr, ret, verdict>>

GroupEnds ==
  /\ Running /\ predicate[group] # <<>> /\ expr > Len(predicate[group])
  /\ verdict' = Result /\ UNCHANGED <<predicate, group, expr, ret>>

PredicateEnds ==
  /\ verdict = -2 /\ group > Len(predicate)
  /\ verdict' = Result /\ UNCHANGED <<predicate, group, expr, ret>>

DslNext == Skip \/ Evaluate \/ PassEmpty \/ GroupEnds \/ PredicateEnds

DslSpec == DslInit /\ [][DslNext]_dslvars
-----------------------------------------------------------------------------
(* Reference: versions as numbers, padded with zeros. *)
At(v, i) == IF i <= Len(v) THEN v[i] ELSE 0

Before(v, w) ==
  \E i \in 1 .. Max({Len(v), Len(w)}) :
     At(v, i) < At(w, i) /\ \A j \in 1 .. i - 1 : At(v, j) = At(w, j)

Holds(e) ==
  LET v == Data[e.rule] IN
  \/ v = NULL
  \/ e.rule = "brand" /\ (IF e.op = "=" THEN v = e.val ELSE v # e.val)
  \/ /\ e.rule # "brand"
     /\ CASE e.op = "="  -> ~Before(v, e.val) /\ ~Before(e.val, v)
          [] e.op \in {"!=", "!"} -> Before(v, e.val) \/ Before(e.val, v)
          [] e.op = "<"  -> Before(v, e.val) [] e.op = "<=" -> ~Before(e.val, v)
          [] e.op = ">"  -> Before(e.val, v) [] e.op = ">=" -> ~Before(v, e.val)

Exprs(g) == {g[i] : i \in 1 .. Len(g)} \ {Empty}

Malformed(e) == evaluate_rule(e) = -1

(* dsl_compare_version orders versions as sequences of numbers, whatever   *)
(* their lengths and zeros at the end, for each of the operators.          *)
VersionsAreOrdered ==
  \A g \in 1 .. Len(predicate) : \A e \in Exprs(predicate[g]) :
     ~Malformed(e) => (evaluate_rule(e) = 1 <=> Holds(e))

(* dsl_evaluate accepts a predicate only if all of some group holds, and   *)
(* refuses one without an error in it only if none does; groups of commas  *)
(* alone are left out, as they return what the group before them did.      *)
PredicateIsDisjunction ==
  LET groups == {Exprs(predicate[g]) : g \in 1 .. Len(predicate)}
      full   == \A g \in 1 .. Len(predicate) : predicate[g] # <<>> => Exprs(predicate[g]) # {} IN
  (full /\ groups \ {{}} # {}) =>
    /\ verdict = 0  => \E G \in groups \ {{}} : \A e \in G : ~Malformed(e) /\ Holds(e)
    /\ verdict = -1 => \/ \E G \in groups : \E e \in G : Malformed(e)
                  \/ \A G \in groups \ {{}} : \E e \in G : ~Holds(e)

=============================================================================
