----------------------------- MODULE MCModulation -----------------------------
EXTENDS Modulation

\* Two values to choose between, and a sweep that is neither.
MCAsked == {"low", "high"}
MCSwept == {"between"}

\* A preset with the LFO on and one with it off.
MCPresets == {[base |-> "low", lfo |-> TRUE], [base |-> "high", lfo |-> FALSE]}
=============================================================================
