------------------------------ MODULE MCLauncher ------------------------------
\* Launcher on one or two hosts, beside a task of another launcher.
EXTENDS Launcher
OneOrTwo == {<<1>>, <<1, 2>>}
===============================================================================
