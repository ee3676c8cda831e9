------------------------- MODULE MCDirectoryDownload -------------------------
(* Remote trees and names for the model checking of DirectoryDownload.      *)
EXTENDS DirectoryDownload

Node(type, size) == [type |-> type, size |-> size, target |-> <<>>]
Link(target) == [type |-> "link", size |-> 0, target |-> target]
Dir == Node("dir", 0)

Empty == (Root :> Dir)
In(parent, name, node) == ((parent \o <<name>>) :> node)

\* A file next to a directory with a file and an empty directory.
Nested == Empty @@ In(Root, "a", Dir) @@ In(Root, "f", Node("file", 2))
    @@ In(<<"root", "a">>, "g", Node("file", 1)) @@ In(<<"root", "a">>, "b", Dir)
\* A chain of directories with an empty file at its end.
Deep == Empty @@ In(Root, "a", Dir) @@ In(<<"root", "a">>, "b", Dir)
    @@ In(<<"root", "a", "b">>, "f", Node("file", 0))
\* Files only.
Flat == Empty @@ In(Root, "f", Node("file", 1)) @@ In(Root, "g", Node("file", 2))
\* A link to an empty directory and one to a directory with a directory.
LinkedDirs == Empty @@ In(Root, "a", Dir) @@ In(<<"root", "a">>, "b", Dir)
    @@ In(Root, "l", Link(<<"root", "a">>)) @@ In(Root, "k", Link(<<"root", "a", "b">>))
\* A link to a directory with a file, a link to a file, a special file.
LinkedFiles == Empty @@ In(Root, "a", Dir) @@ In(<<"root", "a">>, "f", Node("file", 1))
    @@ In(Root, "l", Link(<<"root", "a">>))
LinkToFile == Empty @@ In(Root, "f", Node("file", 1)) @@ In(Root, "l", Link(<<"root", "f">>))
Special == Empty @@ In(Root, "f", Node("file", 1)) @@ In(Root, "s", Node("other", 0))
\* A file and another one that has the name of its part file.
PartClash == Empty @@ In(Root, "f", Node("file", 1)) @@ In(Root, "f.filepart", Node("file", 2))

AllTrees == {Empty, Nested, Deep, Flat, LinkedDirs, LinkedFiles, LinkToFile, Special}
Unsupported == {LinkedFiles}
Plain == {Flat}
Clashing == {PartClash}

MCPartOf(n) == CASE n = "f" -> "f.filepart" [] n = "g" -> "g.filepart"
                 [] OTHER -> "other.filepart"
=============================================================================
