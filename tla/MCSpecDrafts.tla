---------------------------- MODULE MCSpecDrafts ----------------------------
EXTENDS SpecDrafts
TwoTabs == {"one", "two"}
TwoTexts == {"a", "b"}
=============================================================================
