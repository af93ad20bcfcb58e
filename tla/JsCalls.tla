------------------------------- MODULE JsCalls -------------------------------
(***************************************************************************)
(* What calls between JS and one instance promise.  Activations nest; a    *)
(* JS caller of an export receives the result of the very activation it    *)
(* started, or the failure that ended it: the exception an import raised   *)
(* beneath it, or a RuntimeError for a trap.  A failure unwinds to the     *)
(* nearest JS frame and no further.  CallEngine implements it.             *)
(***************************************************************************)
EXTENDS Integers, Sequences

CONSTANTS Activation,  \* identities of activations
          None,        \* no failure, nothing received
          Trapped,     \* the RuntimeError of a trap
          Missing      \* the error of calling an import that was not provided

VARIABLES stack,    \* the activations, innermost last: [id, js, byJs]
          failing,  \* the failure that is unwinding
          received  \* what the innermost JS frame last got back from an export

calls == <<stack, failing, received>>

Value(v)     == <<"value", v>>
Exception(x) == <<"exception", x>>

Ids == {stack[i].id : i \in DOMAIN stack}
Top == stack[Len(stack)]
JsRuns == IF stack = <<>> THEN TRUE ELSE Top.js
Below == SubSeq(stack, 1, Len(stack) - 1)

Init ==
  /\ stack \in {<<>>} \cup {<<[id |-> 1, js |-> FALSE, byJs |-> TRUE]>>}
  /\ failing = None
  /\ received = None

\* A wasm function calls a function, or JS calls an export; the callee is a
\* wasm function or a JS import.  An import starts with nothing received.
Enter ==
  /\ failing = None
  /\ \E id \in Activation \ Ids, js \in BOOLEAN :
       stack' = Append(stack, [id |-> id, js |-> js,
                               byJs |-> JsRuns])
  /\ received' = None
  /\ UNCHANGED failing

Return ==
  /\ failing = None /\ stack # <<>>
  /\ stack' = Below
  /\ received' = IF Top.byJs THEN Value(Top.id) ELSE received
  /\ UNCHANGED failing

\* Something fails without ending an activation yet: a trap in a wasm function,
\* or a call that never became an activation.
Refuse(x) ==
  /\ failing = None
  /\ \/ /\ ~JsRuns
        /\ failing' = x
        /\ UNCHANGED <<stack, received>>
     \/ /\ JsRuns
        /\ received' = Exception(x)
        /\ UNCHANGED <<stack, failing>>

\* The innermost activation ends with x: the failure that is unwinding, or an
\* import's own exception, or one the import received and throws on.
Fail(x) ==
  /\ stack # <<>>
  /\ \/ failing = x
     \/ failing = None /\ Top.js /\ (x = Top.id \/ received = Exception(x))
  /\ stack' = Below
  /\ IF Top.byJs
       THEN failing' = None /\ received' = Exception(x)
       ELSE failing' = x /\ UNCHANGED received

Next ==
  \/ Enter
  \/ Return
  \/ \E x \in {Trapped, Missing} : Refuse(x)
  \/ \E x \in Activation \cup {Trapped, Missing} : Fail(x)

Spec == Init /\ [][Next]_calls
=============================================================================
