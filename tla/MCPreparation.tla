---------------------------- MODULE MCPreparation ----------------------------
(***************************************************************************)
(* Preparation of a repository with one template and one JSX source, that  *)
(* may have files of its own where two of the instruments go.              *)
(***************************************************************************)
EXTENDS Preparation

CONSTANTS html, jsx

MCTemplates == {html}
MCSources == {jsx}
MCOwn == {"unit", "component"}
=============================================================================
