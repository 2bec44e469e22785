------------------------------ MODULE Session ------------------------------
(* The pages of the main window (gui/src/main_window.cpp,                  *)
(* sidebar_nav.cpp) share the frame stream and nothing else: a behaviour   *)
(* uses one page, and all the modules of pages are composed in Pages.      *)
EXTENDS Integers, Sequences, FiniteSets, SequencesExt, FiniteSetsExt, Functions

CONSTANT MaxInputs  \* for each page, bounds what the user and the world do to it

VARIABLES
  page,    \* the page in use
  inputs   \* inputs so far

sessionVars == <<page, inputs>>

\* The user, or the world outside, does something to the page.
Input == inputs < MaxInputs[page] /\ inputs' = inputs + 1

\* The program goes on by itself.
Step == UNCHANGED inputs
============================================================================
