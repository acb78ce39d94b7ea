---- MODULE MCGitHubLink ----
EXTENDS GitHubLink
====
