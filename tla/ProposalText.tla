---------------------------- MODULE ProposalText ----------------------------
(* What the proposals of every domain are written with. A preview is a        *)
(* function from the names of the fields it shows to what it shows of them; of *)
(* a text only its shape is kept: what the row had ("old"), what the model      *)
(* wrote ("new"), the same between blanks ("padded"), nothing ("null").         *)
EXTENDS Naturals, Sequences, FiniteSets, FiniteSetsExt, TLC

Nothing == <<>>
Cut(f, keys) == [k \in DOMAIN f \cap keys |-> f[k]]
Without(f, keys) == Cut(f, DOMAIN f \ keys)
\* Object.entries(f).every(([key, entry]) => g[key] === entry)
Says(f, g) == \A k \in DOMAIN f : k \in DOMAIN g /\ g[k] = f[k]
\* strings.TrimSpace, as the services' validators apply it to every text.
Clean(f) == [k \in DOMAIN f |-> IF f[k] = "padded" THEN "new" ELSE f[k]]
\* value === value.trim() for a text that must be there, and one that may not.
Text(v) == v \in {"old", "new"}
OptionalText(v) == Text(v) \/ v = "null"
\* The functions that give some of the keys one of their values.
Written(options) ==
  FoldSet(LAMBDA k, fs : fs \cup UNION {{f @@ (k :> v) : v \in options[k]} : f \in fs},
          {Nothing}, DOMAIN options)
=============================================================================
