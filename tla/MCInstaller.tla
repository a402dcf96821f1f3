------------------------------ MODULE MCInstaller ------------------------------
(* Instances of Installer.  Installers and plans are only compared, so they *)
(* are interchangeable.                                                     *)
EXTENDS Installer, TLC

Symmetry == Permutations(Installer) \cup Permutations(Plan)
=============================================================================
