----------------------------- MODULE Validation ------------------------------
(***************************************************************************)
(* Form requests (crates/luxid-macros/src/validate.rs and                  *)
(* crates/luxid-core/src/validation.rs).  A form is a sequence of fields,  *)
(* each with its rules; errors map a field to the rules it broke, in the   *)
(* order they ran.  The rules that need only the value run first and all   *)
(* together; those that need the database run after, one query each, and   *)
(* only for fields nothing is known against yet.                           *)
(***************************************************************************)
EXTENDS Naturals, SequencesExt, Selection, TLC

CONSTANTS Emails,   \* the well-formed addresses
          None      \* the absence of a value

Rule(name) == [name |-> name]
LengthRule(min, max) ==   \* None: no upper limit
    [name |-> "length", min |-> min, max |-> max]
RangeRule(min, max) == [name |-> "range", min |-> min, max |-> max]
CustomRule(reserved) == [name |-> "custom", reserved |-> reserved]
UniqueRule(except) == [name |-> "unique", except |-> except]

Field(name, optional, rules) ==
    [name |-> name, optional |-> optional, rules |-> rules]

IsAsync(rule) == rule.name \in {"unique", "exists"}

NoErrors == <<>>

Add(errors, field, message) ==
    [f \in DOMAIN errors \cup {field} |->
        IF f \notin DOMAIN errors THEN <<message>>
        ELSE IF f = field THEN Append(errors[f], message) ELSE errors[f]]

\* Whether a value breaks a rule that looks at nothing else.
Breaks(rule, value) ==
    CASE rule.name = "length" -> Len(value) < rule.min
                                 \/ (rule.max # None /\ Len(value) > rule.max)
      [] rule.name = "email" -> value \notin Emails
      [] rule.name = "range" -> value < rule.min \/ value > rule.max
      [] rule.name = "custom" -> value \in rule.reserved

\* Every rule of a form with its field, in declaration order, without those
\* of an optional field that is absent.
Applicable(form, input) ==
    FlattenSeq([i \in DOMAIN form |->
        IF form[i].optional /\ input[form[i].name] = None THEN <<>>
        ELSE [j \in DOMAIN form[i].rules |->
                 [field |-> form[i].name, rule |-> form[i].rules[j]]]])

ValidateSync(form, input) ==
    LET applicable == Applicable(form, input)
        sync == {c \in ToSet(applicable) : ~IsAsync(c.rule)}
    IN FoldLeft(LAMBDA errors, c : IF Breaks(c.rule, input[c.field])
                                   THEN Add(errors, c.field, c.rule.name) ELSE errors,
                NoErrors, Among(applicable, sync))

\* The queries left to make once the other rules have run.
AsyncChecks(form, input) ==
    LET applicable == Applicable(form, input)
        failed == DOMAIN ValidateSync(form, input)
    IN Among(applicable, {c \in ToSet(applicable) : IsAsync(c.rule) /\ c.field \notin failed})

\* One message per field, as the Inertia protocol wants them.
FirstMessages(errors) == [field \in DOMAIN errors |-> errors[field][1]]
==============================================================================
