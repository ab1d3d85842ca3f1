-------------------------- MODULE MCClangTidyCache --------------------------
(* Small projects for ClangTidyCache.                                      *)
EXTENDS ClangTidyCache, TLC

CONSTANTS source, header, other, copy, r1, r2, w1, w2

(* A source file and the header it includes, in two invocations.           *)
Shared ==
  [listing |-> <<source, header>>, headers |-> {header},
   basename |-> source :> "a.cc" @@ header :> "a.h",
   includes |-> source :> <<header>> @@ header :> <<>>,
   text |-> source :> "source" @@ header :> "header",
   jobs |-> r1 :> {w1} @@ r2 :> {w1}, max_edits |-> 1, max_signals |-> 2]

(* Two files with one name and one content, in two directories, and a      *)
(* third one, in one invocation with two threads.                          *)
Copies ==
  [listing |-> <<source, copy, other>>, headers |-> {},
   basename |-> source :> "a.cc" @@ copy :> "a.cc" @@ other :> "b.cc",
   includes |-> source :> <<>> @@ copy :> <<>> @@ other :> <<>>,
   text |-> source :> "source" @@ copy :> "source" @@ other :> "other",
   jobs |-> r1 :> {w1, w2}, max_edits |-> 0, max_signals |-> 2]

(* Two headers with one name and different contents, one of which includes *)
(* the other: its own content cancels out of its hash.                     *)
LikeNamed ==
  [listing |-> <<header, copy>>, headers |-> {header, copy},
   basename |-> header :> "a.h" @@ copy :> "a.h",
   includes |-> header :> <<copy>> @@ copy :> <<>>,
   text |-> header :> "header" @@ copy :> "other",
   jobs |-> r1 :> {w1, w2}, max_edits |-> 0, max_signals |-> 1]

(* A source file that includes a name which two headers have, in           *)
(* invocations of which one has no threads.                                *)
Sloppy ==
  [listing |-> <<header, source, copy>>, headers |-> {header, copy},
   basename |-> source :> "a.cc" @@ header :> "a.h" @@ copy :> "a.h",
   includes |-> source :> <<header>> @@ header :> <<>> @@ copy :> <<>>,
   text |-> source :> "source" @@ header :> "header" @@ copy :> "other",
   jobs |-> r1 :> {w1} @@ r2 :> {}, max_edits |-> 1, max_signals |-> 1]

(* A header that includes another header.                                  *)
Nested ==
  [listing |-> <<source, header, other>>, headers |-> {header, other},
   basename |-> source :> "a.cc" @@ header :> "a.h" @@ other :> "b.h",
   includes |-> source :> <<header>> @@ header :> <<other>> @@ other :> <<>>,
   text |-> source :> "source" @@ header :> "header" @@ other :> "other",
   jobs |-> r1 :> {w1} @@ r2 :> {w1}, max_edits |-> 1, max_signals |-> 0]

MCProjects ==
  {Shared, [Shared EXCEPT !.max_edits = 2, !.max_signals = 0], Copies, LikeNamed,
   Sloppy, Nested}
NestedOnly == {Nested}
LikeNamedOnly == {[LikeNamed EXCEPT !.max_signals = 0]}
MCVersions == {0, 1}
=============================================================================
