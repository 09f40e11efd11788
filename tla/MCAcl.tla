------------------------------- MODULE MCAcl --------------------------------
(***************************************************************************)
(* Every ACL of two tables with up to two rules each, made of six kinds    *)
(* of rules; the second table is reached by jumps and calls only, both can *)
(* reach themselves and each other.                                        *)
(***************************************************************************)
EXTENDS Acl

R(type, target, reply) == [type |-> type, target |-> target, reply |-> reply]

MCRules == {
  R("jump", "b", "none"), R("call", "b", "none"), R("jump", "a", "4"),
  R("reject", "a", "5"), R("greylist", "a", "4"), R("return", "a", "none")}

\* Stage 1 stands for helo, stage 2 for envrcpt.
MCStageTable == [s \in {1, 2} |-> "a"]
MCAllowed == [x \in Action |-> CASE x = "greylist" -> {2} [] x \in {"mod", "pipe"} -> {}
                                  [] OTHER -> {1, 2}]
=============================================================================
