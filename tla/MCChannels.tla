------------------------------ MODULE MCChannels ----------------------------
(* A behaviour is about one part: two channels on memory; the plugins of    *)
(* one channel and one serializer, with a built-in plugin "Ascii", one of   *)
(* the program whose name differs from it in case only, one of the library, *)
(* and one that is nowhere; or the formatted text and the lines in a        *)
(* channel.                                                                 *)
EXTENDS MemoryChannels, Plugins, FormattedText

(* Of the two channels, at a time at most one place is written to, for the  *)
(* places do not touch each other, and one channel reads until it writes or *)
(* closes, for two that only read do not either.                            *)
OnePlace == Cardinality({p \in Places : memory[p] \notin {<<>>, Zeros(Size)}}) <= 1
OneReader ==
    Cardinality({c \in Channels : channel[c].error \/ channel[c].lastRead > 0
                                   \/ channel[c].unget # <<>>}) <= 1

\* The search in the list of formats does not tell case.
MCSame == [n \in PluginNames |-> IF n = "Ascii" THEN "ascii" ELSE n]

MCArgument(words) == {[word |-> w, limit |-> 0] : w \in words}
MCArguments ==
  [c \in Conversions |->
     CASE c \in Integer  -> MCArgument({<<"1">>, <<"-", "1">>, <<"1", "0">>})
       [] c \in Floating -> MCArgument({<<"1", ".", "0", "e", "-", "1">>})
       [] c = <<"S">> -> MCArgument(UNION {[1 .. n -> {"a", "\\", "\n", "\"", "n", Bell}] : n \in 0 .. 2})
       [] c = <<"*", "s">> -> {[word |-> w, limit |-> n] :
                                 w \in {<<"a">>, <<"a", "1">>, <<"a", ",", "a">>}, n \in 1 .. 2}
       [] c = <<"s">> -> MCArgument({<<>>, <<"a">>, <<"-", "1">>})
       [] c = <<"@">> -> MCArgument({<<>>, <<"a">>})
       [] OTHER -> MCArgument({<<"a">>, <<"1">>})]
MCTextFormats ==
  {<<"%", "d">>, <<"%", "d", ",", "%", "s">>, <<"%", "l", "l", "d", " ", "%", "f">>,
   <<"%", "d", "%", "d">>, <<"%", "c", "%", "c">>, <<"a", "%", "s", " ">>, <<"%", "*", "s">>,
   <<"%", "*", "s", " ", "%", "d">>, <<"%", "*", "s", " ", "%", "*", "s">>, <<"%", "p">>,
   <<"%", "@", ",", "%", "u">>, <<"%", "%", "a">>, <<"%", "S">>, <<"%", "x">>, <<"\n", "%", "s">>}
MCTextChars == {"1", "-", " ", ",", "a", "\n"}
MCBehind == {<<>>, <<" ", ";">>, <<"\n">>}
MCLines  == {<<>>, <<"a">>, <<"a", "1">>, <<"a", "1", ",">>}

MCInit == MemInit /\ PluginInit /\ FormattedInit
PluginsRest == installed /\ PluginInit
MCNext ==
    \/ /\ PluginsRest /\ FormattedInit
       /\ MemNext /\ OnePlace' /\ OneReader' /\ UNCHANGED <<pluginVars, formatVars>>
    \/ MemInit /\ FormattedInit /\ PluginNext /\ UNCHANGED <<memVars, formatVars>>
    \/ MemInit /\ PluginsRest /\ FormattedNext /\ UNCHANGED <<memVars, pluginVars>>
MCSpec == MCInit /\ [][MCNext]_<<memVars, pluginVars, formatVars>>

(* Whether the last call was a seek decides nothing later.                   *)
MCView == <<channel, memory, call.by, call.short, call.stops, pluginVars, formatVars>>
=============================================================================
