-------------------------- MODULE MCConfigPipeline --------------------------
(* Instance of ConfigPipeline for TLC: the owner's editor may save the     *)
(* defaults without the accessibility, a file that does not parse, or one  *)
(* that the strict parse alone refuses.                                    *)
EXTENDS ConfigPipeline

WithoutA11y == [Defaults EXCEPT !["a11y"] = FALSE]
OwnerDocs == {Broken, Good(WithoutA11y), Invalid(WithoutA11y)}
=============================================================================
