------------------------------ MODULE MCObjectPool ------------------------------
\* ObjectPool for TLC: the instance is in MCObjectPool.cfg, containers and threads
\* are model values.
EXTENDS ObjectPool
===============================================================================
