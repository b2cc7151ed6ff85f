---------------------------- MODULE MCFileUtil -----------------------------
(***************************************************************************)
(* Small instances of FileUtil for TLC.                                    *)
(***************************************************************************)
EXTENDS FileUtil

\* "bab", "ba" and "ab" with their NULs: names that are suffixes and prefixes of
\* each other.
Text == <<98, 97, 98, NUL, 98, 97, NUL, 97, 98, NUL>>
StringStarts == {1, 5, 8}

SomeFiles == [n \in {<<98, 97, 98>>, <<97, 98>>, <<98>>} |->
                CASE n = <<98, 97, 98>> -> [kind |-> "regular", bytes |-> <<1, 2, 3>>]
                  [] n = <<97, 98>>     -> [kind |-> "directory", bytes |-> <<>>]
                  [] n = <<98>>         -> [kind |-> "other", bytes |-> <<1, 2>>]]

\* Nothing, less than the file, more than it, and a negative size.
Sizes == {-1, 0, 2, 4}
Positive == {2, 4}

=============================================================================
