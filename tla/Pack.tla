-------------------------------- MODULE Pack --------------------------------
(***************************************************************************)
(* Records of the drivers without SQL (vp.c, memdb.c, bdb.c): the fields   *)
(* of a record written one behind the other into a key buffer and a data   *)
(* buffer, without any length, and read back along the scheme.             *)
(*                                                                         *)
(* A scheme is a sequence of [type, key].  A value is Null, <<"int", cell>> *)
(* or <<"string", characters>>.  The cells of a buffer are the characters, *)
(* the end of a string, and an integer as a whole: its bytes are never     *)
(* looked at one by one.  Schemes have no lists.                           *)
(***************************************************************************)
EXTENDS Integers, Sequences, SequencesExt

Null == <<"null">>
End == "\\0"
Unpackable == [key |-> <<>>, data |-> <<>>, nulls |-> {-1}]

\* What vp_pack_data appends: strlen + 1 characters, or the integer.
Cells(v) == IF v[1] = "string" THEN Append(v[2], End) ELSE <<v[2]>>

\* Mutant of PackData: the end of a string is not copied.
PackDataOpen(buffer, v) ==
  buffer \o (IF v[1] = "string" THEN v[2] ELSE Cells(v))

PackData(buffer, v) == buffer \o Cells(v)

\* vp_pack.  The bit of a null field is set; a null key is refused.
Pack(scheme, record) ==
  LET nulls == {i \in DOMAIN record : record[i] = Null}
      Fields(key) ==
        LET Field(buffer, i) ==
              IF scheme[i].key # key \/ i \in nulls THEN buffer ELSE PackData(buffer, record[i])
        IN  FoldLeft(Field, <<>>, [i \in DOMAIN record |-> i])
  IN  IF \E i \in nulls : scheme[i].key THEN Unpackable
      ELSE [key |-> Fields(TRUE), data |-> Fields(FALSE), nulls |-> nulls]

\* The value at the start of a buffer: up to the end of the string, or one integer.
Read(type, buffer) ==
  IF type = "string"
  THEN LET ends == {i \in DOMAIN buffer : buffer[i] = End}
       IN  <<"string", IF ends = {} THEN buffer
                       ELSE SubSeq(buffer, 1, (CHOOSE i \in ends : \A j \in ends : i <= j) - 1)>>
  ELSE <<"int", IF buffer = <<>> THEN End ELSE Head(buffer)>>

Rest(type, buffer) ==
  LET size == IF type = "string" THEN Len(Read(type, buffer)[2]) + 1 ELSE 1
  IN  SubSeq(buffer, size + 1, Len(buffer))

\* vp_unpack: every field moves the offset of its own buffer by the size it was read
\* with, a null field by nothing.
Unpack(scheme, vp) ==
  LET Field(st, i) ==
        IF scheme[i].key
        THEN [st EXCEPT !.key = Rest(scheme[i].type, @),
                        !.record = Append(@, Read(scheme[i].type, st.key))]
        ELSE IF i \in vp.nulls THEN [st EXCEPT !.record = Append(@, Null)]
        ELSE [st EXCEPT !.data = Rest(scheme[i].type, @),
                        !.record = Append(@, Read(scheme[i].type, st.data))]
  IN  FoldLeft(Field, [key |-> vp.key, data |-> vp.data, record |-> <<>>],
               [i \in DOMAIN scheme |-> i]).record

\* memdb_record_match compares as many cells as the first key has.  If the second is
\* shorter and equal so far, what lies behind it decides, and may be equal too.
Match(a, b) == IsPrefix(a.key, b.key) \/ IsPrefix(b.key, a.key)
=============================================================================
