------------------------------ MODULE MCWebApp ------------------------------
EXTENDS WebApp
\* Four moves of the shell alone, four of the session alone, or a mix.
SmallBudgets == {<<4, 0>>, <<1, 2>>, <<0, 4>>}
=============================================================================
