----------------------------- MODULE MCReminders -----------------------------
EXTENDS Reminders
=============================================================================
