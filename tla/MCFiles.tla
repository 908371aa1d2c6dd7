------------------------------ MODULE MCFiles ------------------------------
(***************************************************************************)
(* Files and texts in one run: a behaviour is about the tree of files, the *)
(* copies, the strings, the command line, the paths, directories and files *)
(* that are looked at, or the texts that channels are opened from, while   *)
(* the other parts rest in one of their initial states.                    *)
(***************************************************************************)
EXTENDS FileTree, FileCopy, UString, ArgvParser, FileQueries, OpenStrings

MCNames == {"a", "b"}
MCDir == Node("dir", <<>>)
MCFile == Node("file", <<>>)

\* A directory with a directory of a file, and one with a link to its other
\* directory; what else is in the root is left alone.
MCTrees ==
    {<<"a">> :> MCDir @@ <<"b">> :> MCFile
       @@ <<"a", "a">> :> MCDir @@ <<"a", "a", "a">> :> MCFile,
     <<"a">> :> MCDir @@ <<"b">> :> MCFile
       @@ <<"a", "a">> :> MCDir @@ <<"a", "b">> :> Node("link", <<"a", "a">>)
       @@ <<"a", "a", "b">> :> MCFile,
     <<"a">> :> MCFile}
MCTarget == <<"a">>
MCToMake == {<<"a", "b">>}
MCOthers == {<<"a", "b">>, <<"a", "a", "a">>}

\* A file of a block and a byte, one of a block, and a path without a file.
MCInodes == 1..7
MCEntries == "f" :> 1 @@ "g" :> 2 @@ "h" :> NoFile
MCContents == [n \in MCInodes |-> CASE n = 1 -> <<"x", "y", "x">> [] n = 2 -> <<"y", "y">>
                                    [] OTHER -> <<>>]
MCCall(op, src, dst) == [op |-> op, src |-> src, dst |-> dst]
MCCalls ==
    {MCCall("copy", "f", "g"), MCCall("copy", "f", "f"), MCCall("copy", "g", "h"),
     MCCall("append", "f", "g"), MCCall("append", "g", "f"), MCCall("append", "g", "g"),
     MCCall("append", "g", "h"), MCCall("move", "g", "f"), MCCall("move", "f", "h")}

-----------------------------------------------------------------------------
MCReplacements == "a" :> <<"b", "a">> @@ "_" :> <<>>

MCArg(kind, name) == [kind |-> kind, name |-> name]
MCArgs == {MCArg("plain", "p"), MCArg("short", "h"), MCArg("long", "par"),
           MCArg("short", "x"), MCArg("letters", "hx")}
MCCommandLines ==
    {<<>>} \cup {<<MCArg("plain", "p")>> \o l : l \in UNION {[1..k -> MCArgs] : k \in 0..3}}
MCDescriptors == <<[short |-> "h", long |-> "help", hasParameter |-> FALSE],
                   [short |-> "0", long |-> "par", hasParameter |-> TRUE]>>

MCLeaf(n, b) == [name |-> n, kind |-> "file", bytes |-> b, list |-> <<>>]
MCFolder(n, l) == [name |-> n, kind |-> "dir", bytes |-> <<>>,
                   list |-> <<MCLeaf(".", <<>>), MCLeaf("..", <<>>)>> \o l]
MCListings ==
    {<<>>, <<MCLeaf("a", <<0>>)>>, <<MCLeaf("a", <<1>>)>>,
     <<MCLeaf("a", <<0>>), MCLeaf("b", <<1>>)>>, <<MCLeaf("b", <<1>>), MCLeaf("a", <<0>>)>>,
     <<MCFolder("a", <<MCLeaf("c", <<1>>)>>), MCLeaf("b", <<1>>)>>,
     <<MCFolder("a", <<MCLeaf("c", <<0>>)>>), MCLeaf("b", <<1>>)>>,
     <<MCFolder("a", <<MCFolder("c", <<>>)>>), MCLeaf("b", <<1>>)>>}
MCDirectories == {MCFolder("d", l) : l \in MCListings}

MCLower == "s" :> "s" @@ "S" :> "s" @@ "m" :> "m"
MCModes == "R" :> {} @@ "C" :> {"CLOSE"} @@ "N" :> {"NOTCLOSE"} @@ "T" :> {"TRUNC"}
MCPairValues == {<<"s">>, <<"C", " ", "|", "T">>, <<"N", "|", "C">>}

-----------------------------------------------------------------------------
textsVars == <<ucall, argvVars, query, openVars>>

\* One of the trees and one of the command lines, where they are not in question.
NoTree  == fs = (<<"a">> :> MCFile) /\ TreeInit
NoFiles == NoTree /\ CopyInit
NoTexts == line = <<>> /\ UStringInit /\ ArgvInit /\ FileQueriesInit /\ OpenInit

MCInit ==
    \/ NoTexts /\ TreeInit /\ CopyInit
    \/ NoFiles /\ UStringInit /\ ArgvInit /\ FileQueriesInit /\ OpenInit

TextsNext ==
    \/ /\ line = <<>> /\ ArgvInit /\ FileQueriesInit /\ OpenInit
       /\ UStringNext /\ UNCHANGED <<argvVars, query, openVars>>
    \/ /\ UStringInit /\ FileQueriesInit /\ OpenInit
       /\ ArgvNext /\ UNCHANGED <<ucall, query, openVars>>
    \/ /\ line = <<>> /\ UStringInit /\ ArgvInit /\ OpenInit
       /\ FileQueriesNext /\ UNCHANGED <<ucall, argvVars, openVars>>
    \/ /\ line = <<>> /\ UStringInit /\ ArgvInit /\ FileQueriesInit
       /\ OpenNext /\ UNCHANGED <<ucall, argvVars, query>>

MCNext ==
    \/ NoTexts /\ CopyInit /\ TreeNext /\ UNCHANGED <<copyVars, textsVars>>
    \/ NoTexts /\ NoTree /\ CopyNext /\ UNCHANGED <<treeVars, textsVars>>
    \/ NoFiles /\ TextsNext /\ UNCHANGED <<treeVars, copyVars>>

MCSpec == /\ MCInit /\ [][MCNext]_<<treeVars, copyVars, textsVars>>
          /\ TreeFairness /\ CopyFairness
=============================================================================
