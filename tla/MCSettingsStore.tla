---------------------------- MODULE MCSettingsStore ----------------------------
(* Small instances of SettingsStore.                                        *)
EXTENDS SettingsStore

CONSTANT clock
OneWidget == {clock}
===============================================================================
