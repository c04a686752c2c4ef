----------------------------- MODULE MCEditorRack -----------------------------
EXTENDS EditorRack

CONSTANTS a, b

\* A rack with room for one more; a preset of one module.
MCEffect == {a, b}
MCStarts == {<<a, b>>}
MCPresets == {<<b>>}
=============================================================================
