------------------------------- MODULE ApiBody -------------------------------
(***************************************************************************)
(* What a request carries, and how a client and the server look at it.    *)
(*                                                                         *)
(* A body is a function from the paths of its fields, <<"brief">> or       *)
(* <<"target", "brief">>, to the form of each value: no rule of this code  *)
(* tells two texts of one form apart.  What a user typed on a command line *)
(* or into a form is such a function from the names of the options.        *)
(***************************************************************************)
EXTENDS Naturals, Sequences

(* The operators of TLC, which has them in Java: here they can be reasoned *)
(* about as well.                                                          *)
d :> e == [x \in {d} |-> e]
Over(f, g) == [x \in DOMAIN f \cup DOMAIN g |-> IF x \in DOMAIN f THEN f[x] ELSE g[x]]
f @@ g == Over(f, g)

(* A string with a word in it, on one line and short; the same on several  *)
(* lines; the same, too long for a brief; white space; nothing.            *)
Brief   == {"text"}
Full    == {"text", "lines", "long"}
Strings == Full \cup {"blank", "empty"}
Forms   == Strings \cup {"null", "number", "true", "false", "object", "array", "odd"}
Flag    == {"true", "false"}

NoBody == <<>>                       \* no field at all
Usage  == <<"usage">> :> "odd"       \* what a client that refuses sends: nothing

Is(b, k, forms)    == k \in DOMAIN b /\ b[k] \in forms
MayBe(b, k, forms) == k \in DOMAIN b => b[k] \in forms
Only(b, keys)      == \A k \in DOMAIN b : Len(k) = 1 => k[1] \in keys
Within(b, p, keys) == \A k \in DOMAIN b : Len(k) = 2 /\ k[1] = p => k[2] \in keys

(* Fields of a body under construction. *)
Field(p, form)     == p :> form
Copy(o, name, p)   == IF name \in DOMAIN o THEN p :> o[name] ELSE NoBody
Trim(form)         == IF form = "blank" THEN "empty" ELSE form
Trimmed(o, name, p) == IF name \in DOMAIN o THEN p :> Trim(o[name]) ELSE NoBody
FullOnly(o, name, p) ==        \* ...(x.trim() ? { p: x.trim() } : {})
    IF Is(o, name, Full) THEN p :> o[name] ELSE NoBody

(* Command line options as the registrars hand them to the commands: an    *)
(* option given as the empty string is an option not given.                *)
Picked(typed) == [n \in {m \in DOMAIN typed : typed[m] # "empty"} |-> typed[n]]
Given(o, names) == names \subseteq DOMAIN o
OneOf(o, names)   == names \cap DOMAIN o # {}
==============================================================================
