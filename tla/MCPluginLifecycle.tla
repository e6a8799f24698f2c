-------------------------- MODULE MCPluginLifecycle --------------------------
(***************************************************************************)
(* TLC instances of PluginLifecycle: every list of up to MAX_PLUGINS names, *)
(* repeated ones included, and blocks of options as small as the core       *)
(* allows.  Workers are interchangeable: main waits for all of them.        *)
(***************************************************************************)
EXTENDS PluginLifecycle, SequencesExt, TLC

AllLists == SeqOf(Names, MAX_PLUGINS)

Symmetry == Permutations(Workers)
=============================================================================
