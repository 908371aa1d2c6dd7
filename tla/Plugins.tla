------------------------------ MODULE Plugins ------------------------------
(***************************************************************************)
(* How channels find the interface of a stream type and serializers that   *)
(* of a format: in a list of their own, among the built-in ones, among the *)
(* symbols of the process, and in the library, which is opened for it and  *)
(* closed with the object.  The objects belong to one process; the library *)
(* file may appear and disappear.                                          *)
(*                                                                         *)
(* Source: IOChannel.c, Serialize.c, DynamicLoader.c.                      *)
(***************************************************************************)
EXTENDS Integers, FiniteSets, SequencesExt, FiniteSetsExt

CONSTANTS
    PluginChannels, Serializers,   \* objects
    PluginNames,             \* names of stream types and formats
    BuiltIn,                 \* those of the tables of built-in plugins
    ProgramSymbols,          \* those the program defines symbols for
    LibrarySymbols,          \* those the library defines symbols for
    SameInList,              \* name -> what a search in a list makes of it
    OwnPlugins,              \* those the program may add itself
    MaxAdded                 \* bound: plugins in a list

Objects == PluginChannels \cup Serializers

ASSUME PluginAssumption ==
    /\ PluginChannels \cap Serializers = {} /\ IsFiniteSet(Objects)
    /\ BuiltIn \cup ProgramSymbols \cup LibrarySymbols \cup OwnPlugins \subseteq PluginNames
    /\ DOMAIN SameInList = PluginNames /\ MaxAdded \in Nat

VARIABLES
    object,    \* object -> whether it is valid, its list, what it uses, its error
    opened,    \* references of the loaders to the library
    installed  \* whether the file of the library is there

pluginVars == <<object, opened, installed>>

None == [name |-> "none", from |-> "none", handle |-> FALSE]
Invalid == [valid |-> FALSE, list |-> <<>>, current |-> None, error |-> FALSE]
Entry(name, from, handle) == [name |-> name, from |-> from, handle |-> handle]
Sources == {"static", "program", "library", "user"}

\* The places in a list whose entries have opened the library.
Opening(list) == {i \in DOMAIN list : list[i].handle}

PluginTypeOK ==
    /\ \A o \in Objects :
         /\ Len(object[o].list) <= MaxAdded
         /\ \A e \in Range(object[o].list) : e.name \in PluginNames /\ e.from \in Sources
         /\ object[o].current = None \/ Contains(object[o].list, object[o].current)
    /\ opened \in Nat /\ installed \in BOOLEAN

PluginInit ==
    object = [o \in Objects |-> Invalid] /\ opened = 0 /\ installed \in BOOLEAN

-----------------------------------------------------------------------------
(* Looking for a plugin.                                                   *)

\* Mutant: the oldest entry is found.
FindOldest(o, name) ==
    LET found == {i \in 1..Len(object[o].list) :
                    SameInList[object[o].list[i].name] = SameInList[name]}
    IN  IF found = {} THEN None ELSE object[o].list[Max(found)]

\* The first entry of the list, the newest one.
Find(o, name) ==
    LET found == {i \in 1..Len(object[o].list) :
                    SameInList[object[o].list[i].name] = SameInList[name]}
    IN  IF found = {} THEN None ELSE object[o].list[Min(found)]

\* The symbols dlopen( NULL ) gives access to: also those of the library, once
\* it has been opened with RTLD_GLOBAL.
Symbols == ProgramSymbols \cup (IF opened > 0 THEN LibrarySymbols ELSE {})

\* A new plugin: built in, a symbol of the process, or one of the library, which
\* stays open for it; a library without the symbol is closed again, twice.
Load(name) ==
    IF name \in BuiltIn THEN [entry |-> Entry(name, "static", FALSE), opens |-> 0]
    ELSE IF name \in Symbols
    THEN [entry |-> Entry(name, IF name \in ProgramSymbols THEN "program" ELSE "library", FALSE),
          opens |-> 0]
    ELSE IF installed /\ name \in LibrarySymbols
    THEN [entry |-> Entry(name, "library", TRUE), opens |-> 1]
    ELSE [entry |-> None, opens |-> 0]

-----------------------------------------------------------------------------
ObjectInit(o) ==
    /\ ~object[o].valid
    /\ object' = [object EXCEPT ![o] = [Invalid EXCEPT !.valid = TRUE]]
    /\ UNCHANGED <<opened, installed>>

\* IOChannel_clear, Serialize_clear: each entry closes the library it opened.
ObjectClear(o) ==
    /\ object[o].valid
    /\ object' = [object EXCEPT ![o] = Invalid]
    /\ opened' = opened - Cardinality(Opening(object[o].list))
    /\ UNCHANGED installed

\* The entry for a name and the list and references to the library afterwards.
Search(o, name) ==
    LET found == Find(o, name)
        loaded == Load(name)
    IN  IF found # None THEN [entry |-> found, list |-> object[o].list, opens |-> 0]
        ELSE [entry |-> loaded.entry, opens |-> loaded.opens,
              list |-> IF loaded.entry = None THEN object[o].list
                       ELSE <<loaded.entry>> \o object[o].list]

Finds(o, name, uses, error) ==
    /\ object[o].valid /\ Len(Search(o, name).list) <= MaxAdded
    /\ object' = [object EXCEPT ![o].list = Search(o, name).list,
                                ![o].current = uses, ![o].error = error]
    /\ opened' = opened + Search(o, name).opens
    /\ UNCHANGED installed

\* IOChannel_open: the interface of a stream type, or none.
Open(o, name) == o \in PluginChannels /\ Finds(o, name, Search(o, name).entry, FALSE)

\* IOChannel_isInterfaceDefined keeps what it has loaded to answer.
IOChannel_isInterfaceDefined(o, name) ==
    o \in PluginChannels /\ Finds(o, name, object[o].current, FALSE)

\* Serialize_setFormat: a failure leaves the format as it was; it is an error of
\* the object unless the library could not be opened at all.
Serialize_setFormat(o, name) ==
    /\ o \in Serializers
    /\ LET entry == Search(o, name).entry
       IN  IF entry # None THEN Finds(o, name, entry, object[o].error)
           ELSE Finds(o, name, object[o].current, object[o].error \/ installed)

\* IOChannel_addInterface, Serialize_addFormat: a plugin of the program's own,
\* before all others of its name.
AddPlugin(o, name) ==
    /\ object[o].valid /\ Len(object[o].list) < MaxAdded
    /\ object' = [object EXCEPT ![o].list = <<Entry(name, "user", FALSE)>> \o @]
    /\ UNCHANGED <<opened, installed>>

Install == /\ installed' = ~installed /\ UNCHANGED <<object, opened>>

PluginNext ==
    \/ Install
    \/ \E o \in Objects :
         \/ ObjectInit(o) \/ ObjectClear(o)
         \/ \E n \in PluginNames : \/ Open(o, n) \/ IOChannel_isInterfaceDefined(o, n)
                                   \/ Serialize_setFormat(o, n)
         \/ \E n \in OwnPlugins : AddPlugin(o, n)

-----------------------------------------------------------------------------
(* Properties.                                                             *)

\* Every reference to the library is that of one plugin in the list of a valid
\* object: failed searches and cleared objects leave none, and none is given
\* back twice, in whatever order objects come and go.
OpenedForPlugins ==
    opened = Cardinality({r \in Objects \X (1..MaxAdded) : r[2] \in Opening(object[r[1]].list)})

Newest(o, e) ==
    \E i \in DOMAIN object[o].list :
        /\ object[o].list[i] = e
        /\ \A j \in 1..(i - 1) : SameInList[object[o].list[j].name] # SameInList[e.name]

\* What an object comes to use is the newest plugin of that name in its list, the
\* program's own before any other, also when an older one is in use; a search
\* that ends in an error changes neither what is used nor the list, and leaves the
\* library as it was.
UsesWhatItFound ==
    [][\A o \in Objects :
         /\ object'[o].current \notin {object[o].current, None} =>
              \A e \in Range(object'[o].list) :
                  object'[o].current = e => Newest(o, e)'
         /\ object'[o].valid /\ object'[o].error # object[o].error =>
              /\ object'[o].current = object[o].current
              /\ object'[o].list = object[o].list /\ opened' = opened]_pluginVars

\* A plugin found once is found again, the same one, as long as the object
\* lives, also when the library's file has gone; only one that the program adds
\* comes before it.
FoundStaysFound ==
    [][\A o \in Objects : object[o].valid /\ object'[o].valid =>
         \A e \in Range(object[o].list) :
             \/ Newest(o, e) => Newest(o, e)'
             \/ object'[o].list[1].from = "user"]_pluginVars

(* A plugin is used from where it was found, and what was found stays        *)
(* found and loaded.                                                         *)
PluginsAreKept ==
    /\ [](PluginTypeOK /\ OpenedForPlugins)
    /\ UsesWhatItFound
    /\ FoundStaysFound
=============================================================================
