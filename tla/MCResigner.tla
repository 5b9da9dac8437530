------------------------------ MODULE MCResigner ------------------------------
(***************************************************************************)
(* Apps for the resigner: short methods over instructions of every width,  *)
(* tables between them whose data look like a read of the field, class     *)
(* data with absent methods, and archive sizes around the page boundary.   *)
(***************************************************************************)
EXTENDS ResignerWatch

Field == 7                   \* index of Build.VERSION.SDK_INT
Sget == 1 * 256 + 96         \* sget v1, ...

\* A nop and a read of the field, one of another field and one as a short;
\* operands of const-wide and of an invoke that look like a read; tables of
\* both kinds of switch; elements of an array, of five bytes.
Array == <<768, 1, 5, 0, Sget, Field, 9>>
Beginnings == <<<<<<0>>, <<Sget, Field>>, <<Sget, Field + 1>>,
              <<Sget + 6, Field>>>>,
            <<<<24, Sget, Field, Sget, Field>>, <<110, Sget, Field>>>>,
            <<<<256, 1, Sget, Field, Sget, Field>>,
              <<512, 1, Sget, Field, Sget, Field>>>>,
            <<<<0>>, Array>>>>

\* Each in front of an array and a read.
Program(k) == Beginnings[k] \o <<Array, <<Sget, Field>>>>

Reader == <<<<Sget, Field>>>>

\* Classes: one static and one instance field; a method, one without code and
\* one at an offset of two bytes; then a class without data, and one whose
\* second method lies outside the file.
Classes == <<<<<<1>>, <<1>>, <<1>>, <<2>>, <<0>>, <<9>>, <<1>>, <<2>>, <<0>>, <<1>>,
               <<64>>, <<1>>, <<1>>, <<0>>, <<0>>, <<1>>, <<200, 1>>>>, <<>>,
             <<<<0>>, <<0>>, <<2>>, <<0>>, <<0>>, <<1>>, <<72>>, <<1>>, <<1>>,
               <<255, 127>>>>>>

Methods(p) == 64 :> p @@ 200 :> Reader @@ 72 :> p

Strings == <<"I", "Landroid/os/Build$VERSION;", "SDK_INT", "MODEL">>
Fields == [k \in 1..9 |-> IF k = Field + 1
                          THEN [class |-> 1, type |-> 0, name |-> 2]
                          ELSE [class |-> 1, type |-> 0, name |-> 3]]

Dex(p) ==
  LET code == [o \in DOMAIN Methods(p) |-> FlattenSeq(Methods(p)[o])]
      body == [strings |-> Strings, types |-> <<0, 1>>, fields |-> Fields,
               classes |-> [c \in DOMAIN Classes |-> FlattenSeq(Classes[c])],
               code |-> code]
  IN [valid |-> TRUE, body |-> body, sha |-> body,
      adler |-> [sha |-> body, body |-> body]]

Entries(dex) == <<[kind |-> "signature", data |-> "old"],
                  [kind |-> "dex", data |-> dex],
                  [kind |-> "other", data |-> "resources"]>>

\* An archive as the writer makes it, without a comment.
Archive(cd, cd_size) ==
  LET e == [at |-> cd + cd_size, comment |-> 0, cd |-> cd, cd_size |-> cd_size]
  IN [len |-> cd + cd_size + EOCD, eocds |-> {e}]

\* Entries and a directory that end on a page or beside it, of one chunk or
\* two, and certificates with which the block ends on a page, or 1, 11 or 12
\* bytes short of one.
Layouts == <<<<0, 300, 3394>>, <<4095, CHUNK + 1, 3395>>, <<4096, 300, 3405>>,
             <<CHUNK + 1, CHUNK, 3406>>>>

App(k) == [entries |-> Entries(Dex(Program(k))), methods |-> Methods(Program(k)),
           classes |-> Classes, field |-> Field, zip |-> Archive(Layouts[k][1], Layouts[k][2]),
           cert |-> Layouts[k][3]]

\* One for each beginning, and one with a damaged classes.dex.
MCApps ==
  {App(k) : k \in DOMAIN Beginnings}
  \cup {[App(1) EXCEPT !.entries =
            Entries([Dex(Program(1)) EXCEPT !.valid = FALSE])]}

=============================================================================
