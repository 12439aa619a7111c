---------------------------- MODULE MCIntroduction ----------------------------
\* The page appears twice: four getDocument calls.
EXTENDS Introduction

MCCalls == Persons \X (1..MaxVisits)
=============================================================================
