------------------------------ MODULE MCAcademics ------------------------------
(* Instances of Academics small enough for TLC. *)
EXTENDS Academics

CONSTANTS ann, tess, tom, maths, music

StudentAndTeachers == {ann, tess, tom}
TessTeachesMaths == {<<tess, maths>>, <<tess, music>>}
================================================================================
