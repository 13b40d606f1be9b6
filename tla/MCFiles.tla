------------------------------- MODULE MCFiles -------------------------------
\* Bounds for TLC: the paths d, d/f, d/s, d/s/g, o and o/h; f may be a link to the file o/h,
\* s one to the directory o, and g one back to d; one link in a path, and four directories;
\* an array of one slot at first, which the second entry makes grow.
EXTENDS Files

MCNode == {"root", "d", "f", "s", "g", "o", "h"}
MCParent == [n \in MCNode |-> CASE n \in {"f", "s"} -> "d" [] n = "g" -> "s" [] n = "h" -> "o"
                                [] OTHER -> "root"]
MCTarget == [n \in MCNode |-> CASE n = "f" -> "h" [] n = "s" -> "o" [] n = "g" -> "d"
                                [] OTHER -> "root"]
MCKinds == [n \in MCNode |-> CASE n = "f" -> {"file", "link"} [] n = "s" -> {"dir", "link"}
                               [] n = "g" -> {"file", "link"} [] n = "h" -> {"file"}
                               [] OTHER -> {"dir"}]
=============================================================================
