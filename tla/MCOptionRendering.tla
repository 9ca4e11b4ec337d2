-------------------------- MODULE MCOptionRendering --------------------------
\* The classes that keep an option for nobody.
EXTENDS OptionRendering, FluentBitOptions, GlueOptions

MCLosing == LosingFluentBitTables ++ LosingGlueTables
=============================================================================
